---------------------------- MODULE Spec2Model ----------------------------
(***************************************************************************)
(* Troup'O Invaders: the batched sprite renderer                           *)
(* (src/src/core/sprite-renderer.js), the enemy formation                  *)
(* (src/src/entities/enemy.js), the texture manager                        *)
(* (src/src/core/texture-manager.js), the shader program                   *)
(* (src/src/core/shader-program.js), the game, its state manager and its   *)
(* input manager (src/src/game.js, src/src/utils/constants.js,             *)
(* src/src/core/input-manager.js), the animation component and the sprite  *)
(* sheet packer.                                                           *)
(*                                                                         *)
(* The subsystems have their own specifications (SpecRenderer,             *)
(* SpecFormation, SpecTextures, SpecTextureLife, SpecShader, SpecStates,   *)
(* SpecAnimation, SpecSheet) over one set of variables; each leaves the    *)
(* others' variables alone.  SpecPlaying and SpecEndgame follow the        *)
(* formation through one game, from its construction on; SpecStartup,      *)
(* SpecGame and SpecInput are the game as a whole.                         *)
(***************************************************************************)
EXTENDS Integers, Sequences, FiniteSets, TLC

(***************************************************************************)
(* Bounds of the model.                                                    *)
(***************************************************************************)
\* this.maxSprites (1000 in the source), scaled down so that a full batch
\* is reached within MaxCalls calls
maxSprites == 2
\* longest sequence of calls followed after a begin()
MaxCalls == 4
\* longest list handed to render()
MaxRender == 3
\* CONFIG.ENEMY_ROWS and CONFIG.ENEMY_COLS (5 and 11 in the source), scaled
\* down to a grid whose subsets of living enemies can be enumerated
ENEMY_ROWS == 2
ENEMY_COLS == 2
\* CONFIG.CANVAS_WIDTH (800 in the source), scaled down with the grid so
\* that the formation crosses the canvas in a few moves; as in the source,
\* the grid of 40 pixel wide enemies reaches rightBound exactly
CANVAS_WIDTH == 305
\* update() is followed until some enemy has dropped MaxDrops times since
\* the grid was built
MaxDrops == 1
\* at most MaxDestroyed enemies of a grid are destroyed
MaxDestroyed == 2
\* in the endgame enemies are destroyed until one of the grid is left
MaxLost == 3
\* most entries of atlas.sprites
MaxSpriteEntries == 2
\* loadTexture is called while fewer than MaxImages images were requested
MaxImages == 2
\* createColorTexture is called while fewer than MaxHandles textures exist
MaxHandles == 2
\* the start() calls the model follows
MaxStarts == 3
\* the number of frames counted for a code in the action buffer
MaxTriggers == 2
\* the listeners of the state manager: the game's own and one more
MaxListeners == 2
\* the create() and loadFromFiles() calls made on one shader program
MaxCreates == 3
\* the frames of an animation block, and the frameCount it can state
MaxFrames == 3
\* the width and the height of a sprite to pack, in pixels
MaxSpriteSize == 6
\* CONFIG.maxWidth and CONFIG.maxHeight (2048 in the source), scaled down
maxWidth == 16
maxHeight == 16
\* the bits of the mantissa of a double (53 in the source), scaled down
\* with the sheet: the coordinates of a sheet need 12 bits in the source
\* and 6 here
MantissaBits == 8

(***************************************************************************)
(* Program constants of the renderer.                                      *)
(***************************************************************************)
verticesPerSprite == 6
floatsPerVertex == 8

\* length of the Float32Array this.vertices
BufferLength == maxSprites * verticesPerSprite * floatsPerVertex

\* sprite.texture: null, or a WebGLTexture handle
NoTexture == "null"
TextureHandles == {"T1", "T2"}
Textures == {NoTexture} \cup TextureHandles

\* the content of a quad slot that was never written (the array starts
\* zero-filled); a written slot holds the number of the drawSprite call
\* that wrote its 48 floats
EmptyQuad == 0

VARIABLES
    renderer,     \* the SpriteRenderer object: vertexCount, spriteCount,
                  \* currentTexture, vertices
    drawCalls,    \* the gl.drawArrays calls issued since the last begin()
    maxIdx,       \* highest float index written by drawSprite since the
                  \* last begin(), -1 when none
    trace,        \* the calls made on the renderer since the last begin()
    lastOp,       \* the public method that ran last
    formation,    \* the EnemyFormation object: direction, moveTimer, moveDelay
    enemies,      \* this.enemies, a sequence of Enemy objects
    lastMove,     \* what the last update() did: "none", "advance", "drop"
    lastCall,     \* the method of the formation that ran last
    tm,           \* the TextureManager object: textures, spriteAtlas,
                  \* loadedCount, totalCount
    images,       \* the Image objects created by loadTexture, in order of
                  \* creation, each pending, loaded or failed; stale marks
                  \* those that were pending when clear() was called
    job,          \* the loadSpriteAtlas call: where it stands, the
                  \* descriptor its fetch returns and how many images had
                  \* been requested before its own
    gpu,          \* the GL context: how many textures were created and how
                  \* often each was deleted
    shaderProgram, \* the ShaderProgram object: program and the program its
                  \* cached locations were resolved for
    glShaders,    \* the GL context as the shader program sees it: shaders
                  \* and programs created and deleted, the program in use,
                  \* the programs whose locations were asked for
    game,         \* the Game object: how far initialize() has come and how
                  \* it settled, isRunning, the frame callbacks pending,
                  \* the start() calls waiting for initialize()
    gsm,          \* the GameStateManager object: currentState,
                  \* previousState, the number of listeners
    frame,        \* the gameLoop executions of the last step, each the
                  \* sequence of calls it made
    heard,        \* what the listeners were called with by the last step
                  \* and what they found in the manager
    input,        \* the InputManager object: the codes of the keys that
                  \* are down, the action buffer, and for each code the
                  \* number of frames that found it in the buffer since it
                  \* was put there
    anim,         \* the AnimationComponent object: currentFrame, frameTime,
                  \* isPlaying, frameCount, frameDuration, loop, frameNames
    sheet         \* the sprite sheet the packer has laid out and the
                  \* descriptor record it has written for one sprite

rvars == <<renderer, drawCalls, maxIdx, trace, lastOp>>
fvars == <<formation, enemies, lastMove, lastCall>>
tvars == <<tm, images, job, gpu>>
svars == <<shaderProgram, glShaders>>
gvars == <<game, gsm, frame, heard, input>>
\* the variables of the subsystems other than renderer, formation and
\* texture manager
\* the animation component and the sprite sheet packer
xvars == <<anim, sheet>>
ovars == <<svars, gvars, xvars>>
vars == <<renderer, drawCalls, maxIdx, trace, lastOp, formation, enemies, lastMove,
          lastCall, tm, images, job, gpu, shaderProgram, glShaders, game, gsm,
          frame, heard, input, anim, sheet>>

Max(a, b) == IF a >= b THEN a ELSE b
Min(a, b) == IF a <= b THEN a ELSE b

(***************************************************************************)
(* SpriteRenderer                                                          *)
(***************************************************************************)

\* the fields set by the constructor
NewRenderer ==
    [vertexCount |-> 0, spriteCount |-> 0, currentTexture |-> NoTexture,
     vertices |-> [k \in 1..maxSprites |-> EmptyQuad]]

\* the renderer together with its effects on the GL context
RState(r, gl, mi) == [r |-> r, gl |-> gl, maxIdx |-> mi]

\* begin(): resets the cursor, the count and the active texture; the
\* vertex array keeps its content
begin(st) ==
    [st EXCEPT !.r.vertexCount = 0, !.r.spriteCount = 0,
               !.r.currentTexture = NoTexture]

\* the draw call of flush(): the whole array is uploaded, the uniform
\* useTexture is set, the texture is bound when there is one, and
\* drawArrays(TRIANGLES, 0, vertexCount) reads the first vertexCount
\* vertices; `at' is the number of the call that issued it
DrawArrays(r, at) ==
    LET useTexture == r.currentTexture # NoTexture
        n == r.vertexCount \div verticesPerSprite
    IN  [useTexture |-> useTexture,
         texture |-> IF useTexture THEN r.currentTexture ELSE NoTexture,
         count |-> r.vertexCount,
         quads |-> [k \in 1..Min(n, maxSprites) |-> r.vertices[k]],
         at |-> at]

\* flush() that draws but forgets to reset the batch
flush_keepsCursor(st, at) ==
    IF st.r.vertexCount = 0
    THEN st
    ELSE [st EXCEPT !.gl = Append(st.gl, DrawArrays(st.r, at))]

\* flush() without the test for an empty batch
flush_noEmptyCheck(st, at) ==
    [st EXCEPT !.gl = Append(st.gl, DrawArrays(st.r, at)),
               !.r.vertexCount = 0, !.r.spriteCount = 0]

\* flush()
flush(st, at) ==
    IF st.r.vertexCount = 0
    THEN st
    ELSE [st EXCEPT !.gl = Append(st.gl, DrawArrays(st.r, at)),
                    !.r.vertexCount = 0, !.r.spriteCount = 0]

\* end() that flushes a full batch only
end_onlyWhenFull(st, at) ==
    IF st.r.spriteCount >= maxSprites THEN flush(st, at) ELSE st

\* end()
end(st, at) == flush(st, at)

\* the flush test with the capacity test off by one, either way
needsFlush_oneEarly(r, sprite) ==
    \/ r.spriteCount >= maxSprites - 1
    \/ (r.currentTexture # NoTexture /\ sprite.texture # r.currentTexture)

needsFlush_oneLate(r, sprite) ==
    \/ r.spriteCount > maxSprites
    \/ (r.currentTexture # NoTexture /\ sprite.texture # r.currentTexture)

\* the flush test of drawSprite: batch full, or a truthy currentTexture
\* that is not the sprite's texture
needsFlush(r, sprite) ==
    \/ r.spriteCount >= maxSprites
    \/ (r.currentTexture # NoTexture /\ sprite.texture # r.currentTexture)

\* the 48 writes this.vertices[idx + 0 .. idx + 47]: a write past the end
\* of a Float32Array is dropped
writeQuad(vertices, idx, quad) ==
    LET slot == (idx \div (verticesPerSprite * floatsPerVertex)) + 1
    IN  IF idx + (verticesPerSprite * floatsPerVertex) - 1 < BufferLength
        THEN [vertices EXCEPT ![slot] = quad]
        ELSE vertices

\* drawSprite() without the visibility test
drawSprite_noVisibilityTest(st, sprite) ==
    LET f == IF needsFlush(st.r, sprite) THEN flush(st, sprite.id) ELSE st
        idx == f.r.vertexCount * floatsPerVertex
    IN  [f EXCEPT !.r.currentTexture = sprite.texture,
                  !.r.vertices = writeQuad(f.r.vertices, idx, sprite.id),
                  !.r.vertexCount = f.r.vertexCount + 6,
                  !.r.spriteCount = f.r.spriteCount + 1,
                  !.maxIdx = Max(f.maxIdx, idx + (verticesPerSprite * floatsPerVertex) - 1)]

\* drawSprite(sprite); sprite.id is the number of the call
drawSprite(st, sprite) ==
    IF ~sprite.visible
    THEN st
    ELSE LET f == IF needsFlush(st.r, sprite) THEN flush(st, sprite.id) ELSE st
             idx == f.r.vertexCount * floatsPerVertex
         IN  [f EXCEPT !.r.currentTexture = sprite.texture,
                       !.r.vertices = writeQuad(f.r.vertices, idx, sprite.id),
                       !.r.vertexCount = f.r.vertexCount + 6,
                       !.r.spriteCount = f.r.spriteCount + 1,
                       !.maxIdx = Max(f.maxIdx, idx + (verticesPerSprite * floatsPerVertex) - 1)]

\* the loop of render(): drawSprite for sprites[k..]
RECURSIVE drawAll(_, _, _)
drawAll(st, sprites, k) ==
    IF k > Len(sprites)
    THEN st
    ELSE drawAll(drawSprite(st, sprites[k]), sprites, k + 1)

\* render(sprites)
render(st, sprites) ==
    end(drawAll(begin(st), sprites, 1), Len(sprites) + 1)

\* the sprites handed to the renderer: texture and visibility are the
\* fields the batching depends on
SpriteArgs == [texture : Textures, visible : BOOLEAN]
Call(op, texture, visible) == [op |-> op, texture |-> texture, visible |-> visible]
DrawCallOf(a) == Call("drawSprite", a.texture, a.visible)
SpriteOf(a, id) == [id |-> id, texture |-> a.texture, visible |-> a.visible]

Cur == RState(renderer, drawCalls, maxIdx)

Begin ==
    /\ LET st == begin(Cur) IN renderer' = st.r
    /\ drawCalls' = <<>>
    /\ maxIdx' = -1
    /\ trace' = <<>>
    /\ lastOp' = "begin"
    /\ UNCHANGED <<fvars, tvars, ovars>>

DrawSprite ==
    /\ Len(trace) < MaxCalls
    /\ \E a \in SpriteArgs :
         LET st == drawSprite(Cur, SpriteOf(a, Len(trace) + 1))
         IN  /\ renderer' = st.r
             /\ drawCalls' = st.gl
             /\ maxIdx' = st.maxIdx
             /\ trace' = Append(trace, DrawCallOf(a))
    /\ lastOp' = "drawSprite"
    /\ UNCHANGED <<fvars, tvars, ovars>>

Flush ==
    /\ Len(trace) < MaxCalls
    /\ LET st == flush(Cur, Len(trace) + 1)
       IN  /\ renderer' = st.r
           /\ drawCalls' = st.gl
           /\ maxIdx' = st.maxIdx
    /\ trace' = Append(trace, Call("flush", NoTexture, FALSE))
    /\ lastOp' = "flush"
    /\ UNCHANGED <<fvars, tvars, ovars>>

End ==
    /\ Len(trace) < MaxCalls
    /\ LET st == end(Cur, Len(trace) + 1)
       IN  /\ renderer' = st.r
           /\ drawCalls' = st.gl
           /\ maxIdx' = st.maxIdx
    /\ trace' = Append(trace, Call("end", NoTexture, FALSE))
    /\ lastOp' = "end"
    /\ UNCHANGED <<fvars, tvars, ovars>>

\* the lists render() is called with
RECURSIVE SeqsUpTo(_, _)
SeqsUpTo(S, n) ==
    IF n = 0
    THEN {<<>>}
    ELSE LET shorter == SeqsUpTo(S, n - 1)
         IN  shorter \cup {Append(s, x) : s \in {t \in shorter : Len(t) = n - 1}, x \in S}

RenderLists == SeqsUpTo(SpriteArgs, MaxRender)

\* render() starts with begin(), which leaves of the state it finds only
\* the content of the vertex array: render() is taken from the states
\* begin() leaves, and every effect it can have is among those
Render ==
    /\ lastOp \in {"new", "begin"}
    /\ \E args \in RenderLists :
         LET sprites == [k \in 1..Len(args) |-> SpriteOf(args[k], k)]
             st == render(RState(renderer, <<>>, -1), sprites)
         IN  /\ renderer' = st.r
             /\ drawCalls' = st.gl
             /\ maxIdx' = st.maxIdx
             /\ trace' = Append([k \in 1..Len(args) |-> DrawCallOf(args[k])],
                                Call("end", NoTexture, FALSE))
    /\ lastOp' = "render"
    /\ UNCHANGED <<fvars, tvars, ovars>>

InitRenderer ==
    /\ renderer = NewRenderer
    /\ drawCalls = <<>>
    /\ maxIdx = -1
    /\ trace = <<>>
    /\ lastOp = "new"

NextRenderer == Begin \/ DrawSprite \/ Flush \/ End \/ Render



(***************************************************************************)
(* Enemy and EnemyFormation                                                *)
(*                                                                         *)
(* Times are exact multiples of Tick = 0.1 s / TotalEnemies, so that       *)
(* ENEMY_MOVE_DELAY * alive / total is an integer.  Of an Enemy the model  *)
(* keeps the position, the formation target, the size, the grid cell and   *)
(* the alive and visible flags; the animation phase and the shoot cooldown *)
(* are read by nothing modelled here.                                      *)
(***************************************************************************)
ENEMY_WIDTH == 40
ENEMY_HEIGHT == 40
ENEMY_SPACING_X == 55
ENEMY_SPACING_Y == 45
ENEMY_START_Y == 80
ENEMY_MOVE_SPEED == 30
ENEMY_DROP_DISTANCE == 20

TotalEnemies == ENEMY_ROWS * ENEMY_COLS
\* CONFIG.ENEMY_MOVE_DELAY, 0.8 s
ENEMY_MOVE_DELAY == 8 * TotalEnemies
\* the minimum delay of update(), 0.1 s
MinMoveDelay == 1 * TotalEnemies
\* the frame times update() is called with: 0.4 s and 0.8 s
DeltaTimes == {4 * TotalEnemies, 8 * TotalEnemies}

\* this.startX, this.startY, this.leftBound, this.rightBound
startX == 100
startY == ENEMY_START_Y
leftBound == 50
rightBound == CANVAS_WIDTH - 50

\* what createFormation gets from the texture manager for an enemy sprite:
\* nothing (the enemy keeps ENEMY_WIDTH x ENEMY_HEIGHT), or the sprite data
\* of the atlas, whose enemy sprites are 30 x 30
NoSpriteData == [found |-> FALSE, width |-> 0, height |-> 0]
AtlasSpriteData == [found |-> TRUE, width |-> 30, height |-> 30]
SpriteDatas == {NoSpriteData, AtlasSpriteData}

\* A rectangle of texture coordinates is named by the sprite entry whose
\* (u0, v0, u1 - u0, v1 - v0) it is; rect 0 is the full unit rectangle
\* (0, 0, 1, 1) a Sprite is constructed with
UnitRectangle == [rect |-> 0]

\* new EnemyFormation()
NewFormation ==
    [direction |-> 1, moveTimer |-> 0, moveDelay |-> ENEMY_MOVE_DELAY]

\* new Enemy(x, y, type, row, col)
NewEnemy(x, y, type, row, col) ==
    [x |-> x, y |-> y, width |-> ENEMY_WIDTH, height |-> ENEMY_HEIGHT,
     type |-> type, row |-> row, col |-> col,
     formationX |-> x, formationY |-> y,
     texCoords |-> UnitRectangle,
     alive |-> TRUE, visible |-> TRUE]

\* Enemy.loadTexture: the size becomes the sprite's when the sprite is
\* known; the texture coordinates stay those of the constructor
loadTexture(e, data) ==
    IF data.found
    THEN [e EXCEPT !.width = data.width, !.height = data.height]
    ELSE e

\* the enemy type of a row
typeOfRow(row) == IF row >= 3 THEN 2 ELSE IF row >= 1 THEN 1 ELSE 0

\* createFormation: the grid, row by row
createFormation(data) ==
    [i \in 1..TotalEnemies |->
        LET row == (i - 1) \div ENEMY_COLS
            col == (i - 1) % ENEMY_COLS
        IN  loadTexture(NewEnemy(startX + col * ENEMY_SPACING_X,
                                 startY + row * ENEMY_SPACING_Y,
                                 typeOfRow(row), row, col), data)]

\* Enemy.setFormationPosition
setFormationPosition(e, x, y) == [e EXCEPT !.formationX = x, !.formationY = y]

\* Enemy.update that leaves the enemy where it is drawn
enemyUpdate_keepsPosition(e) == e

\* Enemy.update: the enemy takes its formation position
enemyUpdate(e) ==
    IF ~e.alive THEN e ELSE [e EXCEPT !.x = e.formationX, !.y = e.formationY]

\* Enemy.destroy
destroy(e) == [e EXCEPT !.alive = FALSE, !.visible = FALSE]

\* the indices of getAliveEnemies()
getAliveEnemies(es) == {i \in 1..Len(es) : es[i].alive}

SetMin(S) == CHOOSE m \in S : \A n \in S : m <= n
SetMax(S) == CHOOSE m \in S : \A n \in S : m >= n

\* getFormationBounds: the bounding box of the rendered positions of the
\* living enemies
getFormationBounds(es) ==
    LET alive == getAliveEnemies(es)
    IN  IF alive = {}
        THEN [left |-> 0, right |-> 0, top |-> 0, bottom |-> 0]
        ELSE [left |-> SetMin({es[i].x : i \in alive}),
              right |-> SetMax({es[i].x + es[i].width : i \in alive}),
              top |-> SetMin({es[i].y : i \in alive}),
              bottom |-> SetMax({es[i].y + es[i].height : i \in alive})]

\* moveFormation that turns only once the edge is beyond the bound
moveFormation_strict(direction, es) ==
    IF getAliveEnemies(es) = {}
    THEN [direction |-> direction, enemies |-> es, move |-> "none"]
    ELSE LET bounds == getFormationBounds(es)
             dropRight == direction = 1 /\ bounds.right > rightBound
             dropLeft == ~dropRight /\ direction = -1 /\ bounds.left < leftBound
             shouldDrop == dropRight \/ dropLeft
             newDirection == IF dropRight THEN -1 ELSE IF dropLeft THEN 1 ELSE direction
         IN  [direction |-> newDirection,
              enemies |->
                  [i \in 1..Len(es) |->
                      IF ~es[i].alive
                      THEN es[i]
                      ELSE IF shouldDrop
                           THEN setFormationPosition(es[i], es[i].formationX,
                                    es[i].formationY + ENEMY_DROP_DISTANCE)
                           ELSE setFormationPosition(es[i],
                                    es[i].formationX + (newDirection * ENEMY_MOVE_SPEED),
                                    es[i].formationY)],
              move |-> IF shouldDrop THEN "drop" ELSE "advance"]

\* moveFormation that gives up when a single enemy is left
moveFormation_stopsAtLast(direction, es) ==
    IF Cardinality(getAliveEnemies(es)) <= 1
    THEN [direction |-> direction, enemies |-> es, move |-> "none"]
    ELSE LET bounds == getFormationBounds(es)
             dropRight == direction = 1 /\ bounds.right >= rightBound
             dropLeft == ~dropRight /\ direction = -1 /\ bounds.left <= leftBound
             shouldDrop == dropRight \/ dropLeft
         IN  [direction |-> IF dropRight THEN -1 ELSE IF dropLeft THEN 1 ELSE direction,
              enemies |->
                  [i \in 1..Len(es) |->
                      IF ~es[i].alive
                      THEN es[i]
                      ELSE IF shouldDrop
                           THEN setFormationPosition(es[i], es[i].formationX,
                                    es[i].formationY + ENEMY_DROP_DISTANCE)
                           ELSE setFormationPosition(es[i],
                                    es[i].formationX + (direction * ENEMY_MOVE_SPEED),
                                    es[i].formationY)],
              move |-> IF shouldDrop THEN "drop" ELSE "advance"]

\* moveFormation that, turning, also takes the first step back
moveFormation_dropAndAdvance(direction, es) ==
    IF getAliveEnemies(es) = {}
    THEN [direction |-> direction, enemies |-> es, move |-> "none"]
    ELSE LET bounds == getFormationBounds(es)
             dropRight == direction = 1 /\ bounds.right >= rightBound
             dropLeft == ~dropRight /\ direction = -1 /\ bounds.left <= leftBound
             shouldDrop == dropRight \/ dropLeft
             newDirection == IF dropRight THEN -1 ELSE IF dropLeft THEN 1 ELSE direction
         IN  [direction |-> newDirection,
              enemies |->
                  [i \in 1..Len(es) |->
                      IF ~es[i].alive
                      THEN es[i]
                      ELSE setFormationPosition(es[i],
                               es[i].formationX + (newDirection * ENEMY_MOVE_SPEED),
                               es[i].formationY
                                   + (IF shouldDrop THEN ENEMY_DROP_DISTANCE ELSE 0))],
              move |-> IF shouldDrop THEN "drop" ELSE "advance"]

\* moveFormation whose drop grows with the row of the enemy
moveFormation_dropsByRow(direction, es) ==
    IF getAliveEnemies(es) = {}
    THEN [direction |-> direction, enemies |-> es, move |-> "none"]
    ELSE LET bounds == getFormationBounds(es)
             dropRight == direction = 1 /\ bounds.right >= rightBound
             dropLeft == ~dropRight /\ direction = -1 /\ bounds.left <= leftBound
             shouldDrop == dropRight \/ dropLeft
             newDirection == IF dropRight THEN -1 ELSE IF dropLeft THEN 1 ELSE direction
         IN  [direction |-> newDirection,
              enemies |->
                  [i \in 1..Len(es) |->
                      IF ~es[i].alive
                      THEN es[i]
                      ELSE IF shouldDrop
                           THEN setFormationPosition(es[i], es[i].formationX,
                                    es[i].formationY
                                        + (es[i].row + 1) * ENEMY_DROP_DISTANCE)
                           ELSE setFormationPosition(es[i],
                                    es[i].formationX + (newDirection * ENEMY_MOVE_SPEED),
                                    es[i].formationY)],
              move |-> IF shouldDrop THEN "drop" ELSE "advance"]

\* moveFormation that moves the destroyed enemies with the living
moveFormation_movesDead(direction, es) ==
    IF getAliveEnemies(es) = {}
    THEN [direction |-> direction, enemies |-> es, move |-> "none"]
    ELSE LET bounds == getFormationBounds(es)
             dropRight == direction = 1 /\ bounds.right >= rightBound
             dropLeft == ~dropRight /\ direction = -1 /\ bounds.left <= leftBound
             shouldDrop == dropRight \/ dropLeft
             newDirection == IF dropRight THEN -1 ELSE IF dropLeft THEN 1 ELSE direction
         IN  [direction |-> newDirection,
              enemies |->
                  [i \in 1..Len(es) |->
                      IF shouldDrop
                      THEN setFormationPosition(es[i], es[i].formationX,
                               es[i].formationY + ENEMY_DROP_DISTANCE)
                      ELSE setFormationPosition(es[i],
                               es[i].formationX + (newDirection * ENEMY_MOVE_SPEED),
                               es[i].formationY)],
              move |-> IF shouldDrop THEN "drop" ELSE "advance"]

\* moveFormation: the new direction, the enemies, and what was done
moveFormation(direction, es) ==
    IF getAliveEnemies(es) = {}
    THEN [direction |-> direction, enemies |-> es, move |-> "none"]
    ELSE LET bounds == getFormationBounds(es)
             dropRight == direction = 1 /\ bounds.right >= rightBound
             dropLeft == ~dropRight /\ direction = -1 /\ bounds.left <= leftBound
             shouldDrop == dropRight \/ dropLeft
             newDirection == IF dropRight THEN -1 ELSE IF dropLeft THEN 1 ELSE direction
         IN  [direction |-> newDirection,
              enemies |->
                  [i \in 1..Len(es) |->
                      IF ~es[i].alive
                      THEN es[i]
                      ELSE IF shouldDrop
                           THEN setFormationPosition(es[i], es[i].formationX,
                                    es[i].formationY + ENEMY_DROP_DISTANCE)
                           ELSE setFormationPosition(es[i],
                                    es[i].formationX + (newDirection * ENEMY_MOVE_SPEED),
                                    es[i].formationY)],
              move |-> IF shouldDrop THEN "drop" ELSE "advance"]

\* update() whose delay follows the destroyed enemies instead of the living
update_slowsDown(f, es, deltaTime) ==
    LET timer == f.moveTimer + deltaTime
        due == timer >= f.moveDelay
        m == IF due THEN moveFormation(f.direction, es)
             ELSE [direction |-> f.direction, enemies |-> es, move |-> "none"]
        delay == (ENEMY_MOVE_DELAY
                      * (Len(m.enemies) - Cardinality(getAliveEnemies(m.enemies))))
                     \div TotalEnemies
    IN  [formation |-> [direction |-> m.direction,
                        moveTimer |-> IF due THEN 0 ELSE timer,
                        moveDelay |-> IF delay < MinMoveDelay THEN MinMoveDelay ELSE delay],
         enemies |-> [i \in 1..Len(m.enemies) |-> enemyUpdate(m.enemies[i])],
         move |-> m.move]

\* update() that moves only once the timer is beyond the delay
update_strictTimer(f, es, deltaTime) ==
    LET timer == f.moveTimer + deltaTime
        due == timer > f.moveDelay
        m == IF due THEN moveFormation(f.direction, es)
             ELSE [direction |-> f.direction, enemies |-> es, move |-> "none"]
        delay == (ENEMY_MOVE_DELAY * Cardinality(getAliveEnemies(m.enemies)))
                     \div TotalEnemies
    IN  [formation |-> [direction |-> m.direction,
                        moveTimer |-> IF due THEN 0 ELSE timer,
                        moveDelay |-> IF delay < MinMoveDelay THEN MinMoveDelay ELSE delay],
         enemies |-> [i \in 1..Len(m.enemies) |-> enemyUpdate(m.enemies[i])],
         move |-> m.move]

\* update() without the minimum delay
update_noMinimum(f, es, deltaTime) ==
    LET timer == f.moveTimer + deltaTime
        due == timer >= f.moveDelay
        m == IF due THEN moveFormation(f.direction, es)
             ELSE [direction |-> f.direction, enemies |-> es, move |-> "none"]
        delay == (ENEMY_MOVE_DELAY * Cardinality(getAliveEnemies(m.enemies)))
                     \div TotalEnemies
    IN  [formation |-> [direction |-> m.direction,
                        moveTimer |-> IF due THEN 0 ELSE timer,
                        moveDelay |-> delay],
         enemies |-> [i \in 1..Len(m.enemies) |-> enemyUpdate(m.enemies[i])],
         move |-> m.move]

\* update(deltaTime): the timer, at most one move, the enemies' own update,
\* the new delay
update(f, es, deltaTime) ==
    LET timer == f.moveTimer + deltaTime
        due == timer >= f.moveDelay
        m == IF due THEN moveFormation(f.direction, es)
             ELSE [direction |-> f.direction, enemies |-> es, move |-> "none"]
        delay == (ENEMY_MOVE_DELAY * Cardinality(getAliveEnemies(m.enemies)))
                     \div TotalEnemies
    IN  [formation |-> [direction |-> m.direction,
                        moveTimer |-> IF due THEN 0 ELSE timer,
                        moveDelay |-> IF delay < MinMoveDelay THEN MinMoveDelay ELSE delay],
         enemies |-> [i \in 1..Len(m.enemies) |-> enemyUpdate(m.enemies[i])],
         move |-> m.move]

\* the indices of the enemies in array order, living ones only
aliveInOrder(es) ==
    SelectSeq([i \in 1..Len(es) |-> i], LAMBDA i : es[i].alive)

\* the forEach of getShooters: columnMap holds, in insertion order of the
\* columns, the enemy kept for each column
RECURSIVE bottomMost(_, _, _)
bottomMost(es, order, columnMap) ==
    IF order = <<>>
    THEN columnMap
    ELSE LET i == Head(order)
             at == {k \in 1..Len(columnMap) : es[columnMap[k]].col = es[i].col}
         IN  bottomMost(es, Tail(order),
                 IF at = {}
                 THEN Append(columnMap, i)
                 ELSE LET k == CHOOSE k \in at : TRUE
                      IN  IF es[i].row > es[columnMap[k]].row
                          THEN [columnMap EXCEPT ![k] = i]
                          ELSE columnMap)

\* getShooters that looks at every enemy, dead or alive
getShooters_countsDead(es) == bottomMost(es, [i \in 1..Len(es) |-> i], <<>>)

\* getShooters: the values of the column map
getShooters(es) == bottomMost(es, aliveInOrder(es), <<>>)

\* isCleared
isCleared(es) == Cardinality(getAliveEnemies(es)) = 0

\* reset()
\* reset() that keeps the direction
reset_keepsDirection(f) == [f EXCEPT !.moveTimer = 0]

reset(f) == [f EXCEPT !.direction = 1, !.moveTimer = 0]

\* how many times the enemy has dropped since createFormation
DropsOf(e) == (e.formationY - (startY + e.row * ENEMY_SPACING_Y)) \div ENEMY_DROP_DISTANCE

CreateFormation ==
    /\ \E data \in SpriteDatas : enemies' = createFormation(data)
    /\ lastMove' = "none"
    /\ lastCall' = "createFormation"
    /\ UNCHANGED <<formation, rvars, tvars, ovars>>

Update ==
    /\ \A i \in 1..Len(enemies) : DropsOf(enemies[i]) < MaxDrops
    /\ \E deltaTime \in DeltaTimes :
         LET u == update(formation, enemies, deltaTime)
         IN  /\ formation' = u.formation
             /\ enemies' = u.enemies
             /\ lastMove' = u.move
    /\ lastCall' = "update"
    /\ UNCHANGED <<rvars, tvars, ovars>>

Destroy ==
    /\ Len(enemies) - Cardinality(getAliveEnemies(enemies)) < MaxDestroyed
    /\ \E i \in getAliveEnemies(enemies) :
         enemies' = [enemies EXCEPT ![i] = destroy(enemies[i])]
    /\ lastMove' = "none"
    /\ lastCall' = "destroy"
    /\ UNCHANGED <<formation, rvars, tvars, ovars>>

Reset ==
    /\ formation' = reset(formation)
    /\ enemies' = <<>>
    /\ lastMove' = "none"
    /\ lastCall' = "reset"
    /\ UNCHANGED <<rvars, tvars, ovars>>

InitFormation ==
    /\ formation = NewFormation
    /\ enemies = <<>>
    /\ lastMove = "none"
    /\ lastCall = "new"

NextFormation == CreateFormation \/ Update \/ Destroy \/ Reset

(***************************************************************************)
(* The texture manager.  A name or a file is a record: what it names, its  *)
(* number and its extension.  An atlas descriptor has a mode (absent when  *)
(* meta.mode is not given) and up to MaxSpriteEntries sprite entries, each *)
(* with or without a UV rectangle and with or without an animation frame.  *)
(***************************************************************************)
NullHandle == 0
NoUV == [rect |-> 0]
AtlasName == [kind |-> "__atlas__", of |-> 0, ext |-> ""]
SpriteName(i) == [kind |-> "sprite", of |-> i, ext |-> ""]
SpriteFile(i) == [kind |-> "sprite", of |-> i, ext |-> ".png"]
FrameFile(i) == [kind |-> "frame", of |-> i, ext |-> ".png"]
AtlasTextureFile == [kind |-> "__atlas__", of |-> 0, ext |-> ".png"]

\* frameData.file.replace('.png', '')
frameName(file) == [file EXCEPT !.ext = IF file.ext = ".png" THEN "" ELSE file.ext]

\* one entry of atlas.sprites
SpriteEntry(i, hasUV, animated) ==
    [name |-> SpriteName(i),
     file |-> SpriteFile(i),
     uv |-> IF hasUV THEN [rect |-> i] ELSE NoUV,
     frames |-> IF animated THEN <<FrameFile(i)>> ELSE <<>>]

\* meta.mode: the two modes, no mode given, a mode the manager does not know
Modes == {"individual", "packed", "absent", "tiled"}

\* the sprite lists of the descriptors
SpriteLists ==
    UNION {{[i \in 1..n |-> SpriteEntry(i, hasUV[i], animated[i])] :
                hasUV \in [1..n -> BOOLEAN],
                animated \in [1..n -> BOOLEAN]} : n \in 0..MaxSpriteEntries}

\* the descriptors the fetch may return: with a meta block of any mode, or
\* without meta block
Atlases ==
    {[hasMeta |-> TRUE, mode |-> mode, sprites |-> sprites] :
        mode \in Modes, sprites \in SpriteLists}
    \cup {[hasMeta |-> FALSE, mode |-> "absent", sprites |-> sprites] :
             sprites \in SpriteLists}

EmptyMap == [name \in {} |-> name]

\* textures.set(name, entry)
MapSet(map, name, entry) ==
    [n \in (DOMAIN map) \cup {name} |-> IF n = name THEN entry ELSE map[n]]

\* new TextureManager(gl)
NewTextureManager ==
    [textures |-> EmptyMap, spriteAtlas |-> <<>>, loadedCount |-> 0, totalCount |-> 0]

\* the state the operators of the manager work on
TState(t, im, j, g) == [tm |-> t, images |-> im, job |-> j, gpu |-> g]

\* getTexture(name)
getTexture(t, name) ==
    IF name \in DOMAIN t.textures THEN t.textures[name].texture ELSE NullHandle

\* loadTexture(name, path) up to the assignment of image.src: the image is
\* on its way
startLoad(st, name, path) ==
    [st EXCEPT !.images = Append(@, [name |-> name, path |-> path,
                                     status |-> "pending", stale |-> FALSE])]

\* the files loadIndividualSprites loads, in the order of its loops, each
\* with the name it is registered under
RECURSIVE individualLoads(_)
individualLoads(sprites) ==
    IF sprites = <<>>
    THEN <<>>
    ELSE LET spriteData == Head(sprites)
         IN  <<[name |-> spriteData.name, path |-> spriteData.file]>>
             \o [k \in 1..Len(spriteData.frames) |->
                    [name |-> frameName(spriteData.frames[k]),
                     path |-> spriteData.frames[k]]]
             \o individualLoads(Tail(sprites))

RECURSIVE startAll(_, _)
startAll(st, loads) ==
    IF loads = <<>>
    THEN st
    ELSE startAll(startLoad(st, Head(loads).name, Head(loads).path), Tail(loads))

\* are all images settled that were requested after the first from
AllSettled(im, from) == \A k \in (from + 1)..Len(im) : im[k].status # "pending"

\* loadIndividualSprites up to its await: the count, then every load is
\* started; Promise.all of no promise is already resolved
loadIndividualSprites(st, atlas) ==
    LET loads == individualLoads(atlas.sprites)
        started == startAll([st EXCEPT !.tm.totalCount = Len(loads)], loads)
    IN  [started EXCEPT !.job.pc = IF loads = <<>> THEN "resolved" ELSE "awaitAll"]

\* loadPackedAtlas up to its await: the atlas image is requested
loadPackedAtlas(st, atlas) ==
    [startLoad(st, AtlasName, AtlasTextureFile) EXCEPT !.job.pc = "awaitAtlas"]

\* loadPackedAtlas after its await: an entry for every sprite that has a UV
\* rectangle, all with the texture of the atlas entry
RECURSIVE registerAliases(_, _)
registerAliases(t, sprites) ==
    IF sprites = <<>>
    THEN t
    ELSE LET spriteData == Head(sprites)
         IN  registerAliases(
                 IF spriteData.uv # NoUV
                 THEN [t EXCEPT
                          !.textures = MapSet(@, spriteData.name,
                              [texture |-> t.textures[AtlasName].texture,
                               width |-> "spriteData.width",
                               height |-> "spriteData.height",
                               uv |-> spriteData.uv,
                               isAtlasSprite |-> TRUE]),
                          !.loadedCount = @ + 1]
                 ELSE t,
                 Tail(sprites))

\* the code that waits for the image continues
resume(st) ==
    IF st.job.pc = "awaitAll" /\ AllSettled(st.images, st.job.from)
    THEN [st EXCEPT !.job.pc = "resolved"]
    ELSE IF st.job.pc = "awaitAtlas" /\ st.images[st.job.from + 1].status = "loaded"
    THEN [st EXCEPT
             !.tm = registerAliases([@ EXCEPT !.totalCount = Len(st.job.atlas.sprites)],
                                    st.job.atlas.sprites),
             !.job.pc = "resolved"]
    ELSE IF st.job.pc = "awaitAtlas" /\ st.images[st.job.from + 1].status = "failed"
    THEN [st EXCEPT !.job.pc = "rejected"]
    ELSE st

\* gl.createTexture(): the textures are numbered as they are created;
\* deleted[h] counts the gl.deleteTexture calls made with texture h
createTexture(g) == [created |-> g.created + 1, deleted |-> Append(g.deleted, 0)]

\* image.onload of the k-th image: a texture is created and registered, the
\* promise resolves
onload(st, k) ==
    LET texture == st.gpu.created + 1
    IN  resume([st EXCEPT
                   !.gpu = createTexture(@),
                   !.tm.textures = MapSet(@, st.images[k].name,
                       [texture |-> texture,
                        width |-> "image.width",
                        height |-> "image.height",
                        uv |-> NoUV,
                        isAtlasSprite |-> FALSE]),
                   !.tm.loadedCount = @ + 1,
                   !.images[k].status = "loaded"])

\* image.onerror that lets the failure of one file fail the whole call
onerror_failsAll(st, k) ==
    [st EXCEPT !.images[k].status = "failed", !.job.pc = "rejected"]

\* image.onerror of the k-th image: the promise rejects; the caller of
\* loadIndividualSprites has caught it, that of loadPackedAtlas has not
onerror(st, k) ==
    resume([st EXCEPT !.images[k].status = "failed"])

\* loadSpriteAtlas after the descriptor has arrived: it is kept, then
\* atlas.meta.mode is read, which throws when there is no meta block
descriptorArrived(st) ==
    LET atlas == st.job.atlas
        mode == IF atlas.mode = "absent" THEN "individual" ELSE atlas.mode
        kept == [st EXCEPT !.tm.spriteAtlas = <<atlas>>, !.job.from = Len(st.images)]
    IN  IF ~atlas.hasMeta
        THEN [kept EXCEPT !.job.pc = "rejected"]
        ELSE IF mode = "packed"
        THEN loadPackedAtlas(kept, atlas)
        ELSE loadIndividualSprites(kept, atlas)

\* getSpriteData(name): the entries of the descriptor with that name (one
\* or none)
getSpriteData(t, name) ==
    IF t.spriteAtlas = <<>>
    THEN {}
    ELSE {t.spriteAtlas[1].sprites[i] :
             i \in {k \in 1..Len(t.spriteAtlas[1].sprites) :
                        t.spriteAtlas[1].sprites[k].name = name}}

\* new Sprite(x, y, width, height): no texture, the full unit rectangle
NewSprite == [made |-> TRUE, texture |-> NullHandle, texCoords |-> UnitRectangle]
NoSprite == [made |-> FALSE, texture |-> NullHandle, texCoords |-> UnitRectangle]

\* Sprite.setTexCoords
setTexCoords(sprite, rectangle) == [sprite EXCEPT !.texCoords = rectangle]

\* TextureManager.applySpriteUVs(sprite, spriteName): the sprite and whether
\* it was configured
applySpriteUVsTo(t, sprite, spriteName) ==
    IF getSpriteData(t, spriteName) = {} \/ spriteName \notin DOMAIN t.textures
    THEN [sprite |-> sprite, ok |-> FALSE]
    ELSE LET textureData == t.textures[spriteName]
             textured == [sprite EXCEPT !.texture = textureData.texture]
         IN  [sprite |-> IF textureData.uv # NoUV
                         THEN setTexCoords(textured, textureData.uv)
                         ELSE setTexCoords(textured, UnitRectangle),
              ok |-> TRUE]

\* TextureManager.createSprite(spriteName): the sprite, or none
createSprite(t, spriteName) ==
    IF getSpriteData(t, spriteName) = {}
    THEN NoSprite
    ELSE LET applied == applySpriteUVsTo(t, NewSprite, spriteName)
         IN  IF applied.ok THEN applied.sprite ELSE NoSprite

(***************************************************************************)
(* ShaderProgram (src/src/core/shader-program.js).  Shaders and programs   *)
(* are numbered as the GL context creates them; 0 stands for null.         *)
(***************************************************************************)
NullShader == 0
NullProgram == 0

\* new ShaderProgram(gl): no program, no location
NewShaderProgram == [program |-> NullProgram, locations |-> NullProgram]

\* the GL context before any shader call; calls, last and returned are
\* the number of create and loadFromFiles calls made, the method called
\* last and what the last create or loadFromFiles returned
NewGLShaders ==
    [shaders |-> 0, deletedShaders |-> {}, programs |-> 0, deletedPrograms |-> {},
     current |-> NullProgram, queried |-> <<>>,
     calls |-> 0, last |-> "none", returned |-> FALSE]

\* the shader program s with the GL context g, and what the last call
\* returned
SState(s, g, result) == [s |-> s, gl |-> g, result |-> result]

\* where create() can fail, or not
CreateOutcomes == {"vertex", "fragment", "link", "ok"}
\* loadFromFiles() can also fail to fetch the files
LoadOutcomes == CreateOutcomes \cup {"fetch"}

\* compileShader: the shader is created; one that does not compile is
\* deleted and null is returned
compileShader(g, compiles) ==
    LET shader == g.shaders + 1
        made == [g EXCEPT !.shaders = shader]
    IN  IF compiles
        THEN [gl |-> made, shader |-> shader]
        ELSE [gl |-> [made EXCEPT !.deletedShaders = @ \cup {shader}],
              shader |-> NullShader]

\* linkProgram: the program is created; one that does not link is deleted
\* and null is returned
linkProgram(g, links) ==
    LET program == g.programs + 1
        made == [g EXCEPT !.programs = program]
    IN  IF links
        THEN [gl |-> made, program |-> program]
        ELSE [gl |-> [made EXCEPT !.deletedPrograms = @ \cup {program}],
              program |-> NullProgram]

\* gl.deleteShader
deleteShader(g, shader) == [g EXCEPT !.deletedShaders = @ \cup {shader}]

\* getLocations: the locations of this.program are asked for and cached
getLocations(st) ==
    [st EXCEPT !.s.locations = st.s.program,
               !.gl.queried = Append(@, st.s.program)]

\* create(vertexSource, fragmentSource)
create(st, outcome) ==
    LET v == compileShader(st.gl, outcome # "vertex")
        f == compileShader(v.gl, outcome # "fragment")
        l == linkProgram(f.gl, outcome # "link")
        cleaned == deleteShader(deleteShader(l.gl, v.shader), f.shader)
    IN  IF v.shader = NullShader
        THEN [st EXCEPT !.gl = v.gl, !.result = FALSE]
        ELSE IF f.shader = NullShader
        THEN [st EXCEPT !.gl = deleteShader(f.gl, v.shader), !.result = FALSE]
        ELSE IF l.program = NullProgram
        THEN [s |-> [st.s EXCEPT !.program = l.program], gl |-> cleaned,
              result |-> FALSE]
        ELSE getLocations([s |-> [st.s EXCEPT !.program = l.program], gl |-> cleaned,
                           result |-> TRUE])

\* loadFromFiles after its fetches have settled
loadFromFiles(st, outcome) ==
    IF outcome = "fetch"
    THEN [st EXCEPT !.result = FALSE]
    ELSE create(st, outcome)

\* use()
use(st) ==
    IF st.s.program # NullProgram
    THEN [st EXCEPT !.gl.current = st.s.program]
    ELSE st

(***************************************************************************)
(* GameStateManager (src/src/utils/constants.js)                           *)
(***************************************************************************)
MENU == "menu"
PLAYING == "playing"
PAUSED == "paused"
GAME_OVER == "game_over"
GAME_STATES == {MENU, PLAYING, PAUSED, GAME_OVER}

\* this.gameStateManager = null
NoStateManager ==
    [exists |-> FALSE, currentState |-> "null", previousState |-> "null",
     listeners |-> 0, throwing |-> {}]

\* new GameStateManager()
NewGameStateManager ==
    [exists |-> TRUE, currentState |-> MENU, previousState |-> "null",
     listeners |-> 0, throwing |-> {}]

\* the manager g and what its listeners were called with
GState(g, notes) == [gsm |-> g, notes |-> notes]

isState(g, state) == g.currentState = state
isPlaying(g) == g.currentState = PLAYING

\* onStateChange(callback): one more listener, one that returns or one that
\* throws when it is called
onStateChange(g, throws) ==
    [g EXCEPT !.listeners = @ + 1,
              !.throwing = IF throws THEN @ \cup {g.listeners + 1} ELSE @]

\* notifyStateChange without the try around the call of a listener: the
\* first exception ends the forEach
notifyStateChange_stopsAtThrow(g, oldState, newState) ==
    LET last == IF g.throwing = {}
                THEN g.listeners
                ELSE CHOOSE k \in g.throwing : \A j \in g.throwing : k <= j
    IN  [k \in 1..last |->
            [listener |-> k, oldState |-> oldState, newState |-> newState,
             getState |-> g.currentState, previousState |-> g.previousState,
             threw |-> k \in g.throwing]]

\* notifyStateChange: every listener in order of registration, whether or
\* not one before it threw; each call is taken down with what the listener
\* finds in the manager
notifyStateChange(g, oldState, newState) ==
    [k \in 1..g.listeners |->
        [listener |-> k, oldState |-> oldState, newState |-> newState,
         getState |-> g.currentState, previousState |-> g.previousState,
         threw |-> k \in g.throwing]]

\* setState that tells the listeners before it changes the state
setState_notifiesFirst(st, newState) ==
    LET g == st.gsm
    IN  IF newState \notin GAME_STATES \/ g.currentState = newState
        THEN st
        ELSE GState([g EXCEPT !.previousState = g.currentState,
                              !.currentState = newState],
                    st.notes \o notifyStateChange(g, g.currentState, newState))

\* setState(newState)
setState(st, newState) ==
    LET g == st.gsm
        committed == [g EXCEPT !.previousState = g.currentState,
                               !.currentState = newState]
    IN  IF newState \notin GAME_STATES \/ g.currentState = newState
        THEN st
        ELSE GState(committed,
                    st.notes \o notifyStateChange(committed, g.currentState, newState))

startGame(st) == IF isState(st.gsm, MENU) THEN setState(st, PLAYING) ELSE st
pause(st) == IF isState(st.gsm, PLAYING) THEN setState(st, PAUSED) ELSE st
resumeGame(st) == IF isState(st.gsm, PAUSED) THEN setState(st, PLAYING) ELSE st
togglePause(st) ==
    IF isState(st.gsm, PLAYING)
    THEN pause(st)
    ELSE IF isState(st.gsm, PAUSED) THEN resumeGame(st) ELSE st
\* gameOver() that does not look at the state it is called in
gameOver_fromAnyState(st) == setState(st, GAME_OVER)

gameOver(st) == IF isState(st.gsm, PLAYING) THEN setState(st, GAME_OVER) ELSE st

(***************************************************************************)
(* InputManager (src/src/core/input-manager.js).  The model follows the    *)
(* key codes of KeyCodes, which the key handler of the game states does    *)
(* not look at; the manager keeps the codes apart from each other.         *)
(***************************************************************************)
KeyCodes == {"ArrowLeft"}

\* no InputManager yet
NoInputManager ==
    [exists |-> FALSE, keys |-> {}, actionBuffer |-> {},
     triggered |-> [code \in KeyCodes |-> 0]]

\* new InputManager() and initialize(): keys holds the codes mapped to true
NewInputManager == [NoInputManager EXCEPT !.exists = TRUE]

\* handleKeyDown(event)
handleKeyDown(i, code) ==
    IF code \in i.keys
    THEN i
    ELSE [i EXCEPT !.keys = @ \cup {code},
                   !.actionBuffer = @ \cup {code},
                   !.triggered[code] = 0]

\* handleKeyUp(event)
handleKeyUp(i, code) == [i EXCEPT !.keys = @ \ {code}]

\* InputManager.update()
inputUpdate(i) == [i EXCEPT !.actionBuffer = {}]

\* isActionTriggered(code)
isActionTriggered(i, code) == code \in i.actionBuffer

\* a frame begins: the codes isActionTriggered reports in it are counted
frameBegins(i) ==
    [i EXCEPT !.triggered =
        [code \in KeyCodes |->
            IF isActionTriggered(i, code) /\ @[code] < MaxTriggers
            THEN @[code] + 1
            ELSE @[code]]]

(***************************************************************************)
(* Game (src/src/game.js)                                                  *)
(***************************************************************************)
\* no Game object yet
NoGame ==
    [stage |-> "none", initialized |-> "pending", isRunning |-> FALSE,
     pending |-> 0, waiting |-> 0, starts |-> 0, last |-> "none"]

\* the sprite the enemies of the model are drawn with
EnemySprite == SpriteName(1)

\* what Enemy.loadTexture finds for its sprite: the sprite data of the
\* descriptor and a registered texture, or not both
enemySpriteData(t) ==
    IF /\ t.spriteAtlas # <<>>
       /\ \E i \in 1..Len(t.spriteAtlas[1].sprites) :
              t.spriteAtlas[1].sprites[i].name = EnemySprite
       /\ getTexture(t, EnemySprite) # NullHandle
    THEN AtlasSpriteData
    ELSE NoSpriteData

\* the game with the objects its frames and handlers work on; calls are
\* the calls of the gameLoop execution under way
World ==
    [game |-> game, gsm |-> gsm, formation |-> formation, enemies |-> enemies,
     lastMove |-> lastMove, lastCall |-> lastCall, renderer |-> renderer,
     drawCalls |-> drawCalls, maxIdx |-> maxIdx, trace |-> trace, lastOp |-> lastOp,
     input |-> input, frame |-> <<>>, calls |-> <<>>]

\* Game.reset(): the formation is reset and built anew
gameReset(w, t) ==
    [w EXCEPT !.formation = reset(w.formation),
              !.enemies = createFormation(enemySpriteData(t)),
              !.lastMove = "none",
              !.lastCall = "createFormation"]

\* Game.update that does not look at the game state
gameUpdate_alwaysUpdates(w, deltaTime) ==
    LET u == update(w.formation, w.enemies, deltaTime)
    IN  [w EXCEPT !.formation = u.formation,
                  !.enemies = u.enemies,
                  !.lastMove = u.move,
                  !.lastCall = "update",
                  !.calls = @ \o <<"update", "enemyFormation.update">>]

\* Game.update(deltaTime)
gameUpdate(w, deltaTime) ==
    LET called == [w EXCEPT !.calls = Append(@, "update")]
    IN  IF ~w.gsm.exists \/ ~isPlaying(w.gsm)
        THEN called
        ELSE LET u == update(w.formation, w.enemies, deltaTime)
             IN  [called EXCEPT !.formation = u.formation,
                                !.enemies = u.enemies,
                                !.lastMove = u.move,
                                !.lastCall = "update",
                                !.calls = Append(@, "enemyFormation.update"),
                                !.input = IF @.exists THEN inputUpdate(@) ELSE @]

\* the sprites render() hands to the renderer: the living enemies; an
\* enemy that found its sprite has the sprite's size and texture
enemySprites(es) ==
    LET order == aliveInOrder(es)
    IN  [k \in 1..Len(order) |->
            [id |-> k,
             texture |-> IF es[order[k]].width = AtlasSpriteData.width
                         THEN "T1" ELSE NoTexture,
             visible |-> es[order[k]].visible]]

\* Game.render()
gameRender(w) ==
    LET called == [w EXCEPT !.calls = Append(@, "render")]
        sprites == enemySprites(w.enemies)
        st == render(RState(w.renderer, <<>>, -1), sprites)
    IN  IF w.gsm.exists /\ isPlaying(w.gsm) /\ sprites # <<>>
        THEN [called EXCEPT
                 !.renderer = st.r,
                 !.drawCalls = st.gl,
                 !.maxIdx = st.maxIdx,
                 !.trace = Append([k \in 1..Len(sprites) |->
                                      Call("drawSprite", sprites[k].texture,
                                           sprites[k].visible)],
                                  Call("end", NoTexture, FALSE)),
                 !.lastOp = "render",
                 !.calls = Append(@, "spriteRenderer.render")]
        ELSE called

\* gameLoop(currentTime): nothing when the game does not run; else update,
\* render and the request for the next frame
gameLoop(w, deltaTime) ==
    IF ~w.game.isRunning
    THEN [w EXCEPT !.frame = Append(@, <<>>)]
    ELSE LET done == gameRender(gameUpdate([w EXCEPT !.input = frameBegins(@)],
                                           deltaTime))
         IN  [done EXCEPT !.game.pending = @ + 1,
                          !.frame = Append(@, done.calls),
                          !.calls = <<>>]

\* start() that goes on when initialize() returned false
start_ignoresFailure(w) ==
    IF w.game.initialized = "rejected"
    THEN w
    ELSE gameLoop([w EXCEPT !.game.isRunning = TRUE], 0)

\* start() after its await: nothing when initialize() returned false or
\* threw; else the game runs and the first gameLoop is executed at once,
\* with lastTime as its time
start(w) ==
    IF w.game.initialized # "true"
    THEN w
    ELSE gameLoop([w EXCEPT !.game.isRunning = TRUE], 0)

\* the start() calls that wait for initialize() go on, one after the other
RECURSIVE startWaiting(_)
startWaiting(w) ==
    IF w.game.waiting = 0
    THEN w
    ELSE startWaiting(start([w EXCEPT !.game.waiting = @ - 1]))

\* stop()
stop(w) == [w EXCEPT !.game.isRunning = FALSE]

\* initialize() after the atlas load has settled: it throws when the load
\* was rejected; else the state manager is made and the game listens to
\* it, the formation is made, and true is returned
initializeSettles(w, loaded) ==
    startWaiting(
        IF loaded
        THEN [w EXCEPT !.gsm = onStateChange(NewGameStateManager, FALSE),
                       !.formation = NewFormation,
                       !.input = NewInputManager,
                       !.game.stage = "done",
                       !.game.initialized = "true",
                       !.game.last = "initialize"]
        ELSE [w EXCEPT !.game.stage = "done",
                       !.game.initialized = "rejected",
                       !.game.last = "initialize"])

\* the game and its objects become w
GameBecomes(w) ==
    /\ game' = w.game
    /\ gsm' = w.gsm
    /\ frame' = w.frame
    /\ input' = w.input
    /\ formation' = w.formation
    /\ enemies' = w.enemies
    /\ lastMove' = w.lastMove
    /\ lastCall' = w.lastCall
    /\ renderer' = w.renderer
    /\ drawCalls' = w.drawCalls
    /\ maxIdx' = w.maxIdx
    /\ trace' = w.trace
    /\ lastOp' = w.lastOp

\* the manager as it is
CurTextures == TState(tm, images, job, gpu)

\* the manager becomes st; initialize() of the game goes on when it waits
\* for the atlas load and the load has settled
Becomes(st) ==
    /\ tm' = st.tm
    /\ images' = st.images
    /\ job' = st.job
    /\ gpu' = st.gpu
    /\ IF game.stage = "atlas" /\ st.job.pc \in {"resolved", "rejected"}
       THEN /\ GameBecomes(initializeSettles(World, st.job.pc = "resolved"))
            /\ heard' = <<>>
       ELSE UNCHANGED <<rvars, fvars, gvars>>
    /\ UNCHANGED <<svars, xvars>>

\* loadSpriteAtlas(atlasPath) is called: the descriptor is requested
LoadSpriteAtlas ==
    /\ job.pc = "idle"
    /\ \E atlas \in Atlases :
         Becomes([CurTextures EXCEPT !.job = [pc |-> "fetching", atlas |-> atlas,
                                             from |-> 0]])

\* the descriptor cannot be fetched
FetchFails ==
    /\ job.pc = "fetching"
    /\ Becomes([CurTextures EXCEPT !.job.pc = "rejected"])

\* the descriptor arrives
FetchArrives ==
    /\ job.pc = "fetching"
    /\ Becomes(descriptorArrived(CurTextures))

\* an image arrives
ImageLoads ==
    \E k \in 1..Len(images) :
        /\ images[k].status = "pending"
        /\ Becomes(onload(CurTextures, k))

\* an image cannot be loaded
ImageFails ==
    \E k \in 1..Len(images) :
        /\ images[k].status = "pending"
        /\ Becomes(onerror(CurTextures, k))

\* getLoadingProgress(): the counters and the percentage, rounded down
getLoadingProgress(t) ==
    [loaded |-> t.loadedCount,
     total |-> t.totalCount,
     percentage |-> IF t.totalCount > 0
                    THEN (t.loadedCount * 100) \div t.totalCount
                    ELSE 0]

\* createColorTexture(name, color)
createColorTexture(st, name) ==
    [st EXCEPT
        !.gpu = createTexture(@),
        !.tm.textures = MapSet(@, name,
            [texture |-> st.gpu.created + 1,
             width |-> "1",
             height |-> "1",
             uv |-> NoUV,
             isAtlasSprite |-> FALSE])]

\* gl.deleteTexture(texture)
glDeleteTexture(g, texture) == [g EXCEPT !.deleted[texture] = @ + 1]

\* deleteTexture(name)
deleteTexture(st, name) ==
    IF name \in DOMAIN st.tm.textures
    THEN [st EXCEPT
             !.gpu = glDeleteTexture(@, st.tm.textures[name].texture),
             !.tm.textures = [n \in (DOMAIN @) \ {name} |-> @[n]]]
    ELSE st

\* clear(): gl.deleteTexture for the texture of every entry of the map, then
\* the map is emptied and the counters are reset; the images on their way
\* are left alone
clear(st) ==
    [st EXCEPT
        !.gpu.deleted =
            [h \in 1..Len(@) |->
                @[h] + Cardinality({n \in DOMAIN st.tm.textures :
                                       st.tm.textures[n].texture = h})],
        !.tm.textures = EmptyMap,
        !.tm.loadedCount = 0,
        !.tm.totalCount = 0,
        !.images = [k \in 1..Len(@) |->
                       IF @[k].status = "pending" THEN [@[k] EXCEPT !.stale = TRUE]
                       ELSE @[k]]]

\* the names the game uses with loadTexture, createColorTexture and
\* deleteTexture
CallNames == {SpriteName(i) : i \in 1..MaxSpriteEntries}

\* the descriptors of the game: every sprite with its file and its UV
\* rectangle, for one mode or the other
GameAtlases ==
    {[hasMeta |-> TRUE, mode |-> mode,
      sprites |-> [i \in 1..MaxSpriteEntries |-> SpriteEntry(i, TRUE, FALSE)]] :
        mode \in {"individual", "packed"}}

\* loadSpriteAtlas(atlasPath) is called for a descriptor of the game
LoadGameAtlas ==
    /\ job.pc = "idle"
    /\ \E atlas \in GameAtlases :
         Becomes([CurTextures EXCEPT !.job = [pc |-> "fetching", atlas |-> atlas,
                                             from |-> 0]])

\* loadTexture(name, path) is called
LoadTexture ==
    /\ Len(images) < MaxImages
    /\ \E i \in 1..MaxSpriteEntries :
         Becomes(startLoad(CurTextures, SpriteName(i), SpriteFile(i)))

\* createColorTexture(name, color) is called
CreateColorTexture ==
    /\ gpu.created < MaxHandles
    /\ \E name \in CallNames : Becomes(createColorTexture(CurTextures, name))

\* deleteTexture(name) is called; for a name that is not registered it
\* does nothing
DeleteTexture ==
    \E name \in CallNames :
        /\ name \in DOMAIN tm.textures
        /\ Becomes(deleteTexture(CurTextures, name))

\* clear() is called
Clear ==
    /\ tm' = clear(CurTextures).tm
    /\ images' = clear(CurTextures).images
    /\ gpu' = clear(CurTextures).gpu
    /\ UNCHANGED <<job, rvars, fvars, ovars>>

InitTextures ==
    /\ tm = NewTextureManager
    /\ images = <<>>
    /\ job = [pc |-> "idle",
              atlas |-> [hasMeta |-> FALSE, mode |-> "absent", sprites |-> <<>>],
              from |-> 0]
    /\ gpu = [created |-> 0, deleted |-> <<>>]

NextTextures == LoadSpriteAtlas \/ FetchFails \/ FetchArrives \/ ImageLoads \/ ImageFails

\* the manager through its life: loads, single textures, deletion, clear()
NextTextureLife ==
    \/ LoadGameAtlas \/ FetchFails \/ FetchArrives \/ ImageLoads \/ ImageFails
    \/ LoadTexture \/ CreateColorTexture \/ DeleteTexture \/ Clear

(***************************************************************************)
(* A shader program through its life: create() and loadFromFiles() with    *)
(* every outcome, any number of times, and use().                          *)
(***************************************************************************)
\* the call has returned result: the object and the GL context become st
ShaderBecomes(st, call) ==
    /\ shaderProgram' = st.s
    /\ glShaders' = [st.gl EXCEPT !.calls = @ + 1,
                                  !.last = call,
                                  !.returned = st.result]
    /\ UNCHANGED <<rvars, fvars, tvars, gvars, xvars>>

\* create(vertexSource, fragmentSource) is called
Create ==
    /\ glShaders.calls < MaxCreates
    /\ \E outcome \in CreateOutcomes :
         ShaderBecomes(create(SState(shaderProgram, glShaders, FALSE), outcome), "create")

\* loadFromFiles(vertexPath, fragmentPath) is called and settles
LoadFromFiles ==
    /\ glShaders.calls < MaxCreates
    /\ \E outcome \in LoadOutcomes :
         ShaderBecomes(loadFromFiles(SState(shaderProgram, glShaders, FALSE), outcome),
                       "loadFromFiles")

\* use() is called
Use ==
    /\ glShaders.last # "use"
    /\ ShaderBecomes([use(SState(shaderProgram, glShaders, glShaders.returned))
                         EXCEPT !.gl.calls = @ - 1], "use")

NextShader == Create \/ LoadFromFiles \/ Use

(***************************************************************************)
(* AnimationComponent (src/src/core/sprite-renderer.js).  Time is counted  *)
(* in halves of the frame duration.                                        *)
(***************************************************************************)
\* 1.0 / fps
frameDuration == 2
\* the times between two updates: half a frame duration, a whole one
AnimationDeltaTimes == {1, 2}

\* the animation blocks of a descriptor: frameCount (0 when the block has
\* none), loop, and the frame list, here the number of its frames
AnimationBlocks ==
    [frameCount : 0..MaxFrames, loop : BOOLEAN, frames : 1..MaxFrames]

\* no component yet
NoAnimation ==
    [made |-> FALSE, currentFrame |-> 0, frameTime |-> 0, isPlaying |-> FALSE,
     frameCount |-> 0, loop |-> FALSE, frameNames |-> <<>>]

\* initializeFrames: a name for every frame of the list
initializeFrames(animationData) ==
    [index \in 1..animationData.frames |-> frameName(FrameFile(index))]

\* new AnimationComponent(baseName, animationData, textureManager)
NewAnimationComponent(animationData) ==
    [made |-> TRUE, currentFrame |-> 0, frameTime |-> 0, isPlaying |-> TRUE,
     frameCount |-> IF animationData.frameCount # 0
                    THEN animationData.frameCount
                    ELSE animationData.frames,
     loop |-> animationData.loop,
     frameNames |-> initializeFrames(animationData)]

\* update(deltaTime)
animationUpdate(a, deltaTime) ==
    IF ~a.isPlaying \/ a.frameCount <= 1
    THEN a
    ELSE LET timed == [a EXCEPT !.frameTime = @ + deltaTime]
             advanced == [timed EXCEPT !.frameTime = @ - frameDuration,
                                       !.currentFrame = @ + 1]
         IN  IF timed.frameTime < frameDuration
             THEN timed
             ELSE IF advanced.currentFrame < a.frameCount
             THEN advanced
             ELSE IF a.loop
             THEN [advanced EXCEPT !.currentFrame = 0]
             ELSE [advanced EXCEPT !.currentFrame = a.frameCount - 1,
                                   !.isPlaying = FALSE]

\* reset()
animationReset(a) == [a EXCEPT !.currentFrame = 0, !.frameTime = 0, !.isPlaying = TRUE]

\* setFrame(frame)
setFrame(a, index) ==
    [a EXCEPT !.currentFrame = Max(0, Min(index, a.frameCount - 1)), !.frameTime = 0]

\* play()
play(a) == [a EXCEPT !.isPlaying = TRUE]

\* pause()
animationPause(a) == [a EXCEPT !.isPlaying = FALSE]

\* stop()
animationStop(a) == [a EXCEPT !.isPlaying = FALSE, !.currentFrame = 0, !.frameTime = 0]

\* the component becomes a
AnimationBecomes(a) ==
    /\ anim' = a
    /\ UNCHANGED <<rvars, fvars, tvars, svars, gvars, sheet>>

\* a component is made for an animation block
NewAnimation ==
    /\ ~anim.made
    /\ \E animationData \in AnimationBlocks :
         AnimationBecomes(NewAnimationComponent(animationData))

AnimationUpdate ==
    /\ anim.made
    /\ \E deltaTime \in AnimationDeltaTimes :
         AnimationBecomes(animationUpdate(anim, deltaTime))

SetFrame ==
    /\ anim.made
    /\ \E index \in (0 - 1)..(MaxFrames + 1) : AnimationBecomes(setFrame(anim, index))

AnimationReset ==
    /\ anim.made
    /\ AnimationBecomes(animationReset(anim))

Play ==
    /\ anim.made
    /\ AnimationBecomes(play(anim))

AnimationPause ==
    /\ anim.made
    /\ AnimationBecomes(animationPause(anim))

AnimationStop ==
    /\ anim.made
    /\ AnimationBecomes(animationStop(anim))

InitAnimation == anim = NoAnimation

NextAnimation ==
    \/ NewAnimation \/ AnimationUpdate \/ SetFrame \/ AnimationReset
    \/ Play \/ AnimationPause \/ AnimationStop

(***************************************************************************)
(* The sprite sheet packer (src/unnamed/part_009) and the use of its UV    *)
(* rectangles by the texture manager.  The numbers of the packer are       *)
(* IEEE doubles: a double is written [m, e] for m * 2^e, with a mantissa   *)
(* of MantissaBits bits; sizes and precision are scaled down together      *)
(* (2048 pixels and 53 bits in the source).                                *)
(***************************************************************************)
\* CONFIG.padding
padding == 2
\* 2 ^ k
Pow2(k) == 2 ^ k

\* n / d written as num / den * 2^e with num / den between 2^(bits - 1)
\* and 2^bits, for n and d above 0
RECURSIVE Scale(_, _, _)
Scale(num, den, e) ==
    IF num < Pow2(MantissaBits - 1) * den
    THEN Scale(2 * num, den, e - 1)
    ELSE IF num >= Pow2(MantissaBits) * den
    THEN Scale(num, 2 * den, e + 1)
    ELSE [num |-> num, den |-> den, e |-> e]

\* the double nearest to n / d, ties to the even mantissa
Round(n, d) ==
    IF n = 0
    THEN [m |-> 0, e |-> 0]
    ELSE LET s == Scale(n, d, 0)
             quotient == s.num \div s.den
             rest == s.num % s.den
             m == IF 2 * rest > s.den \/ (2 * rest = s.den /\ quotient % 2 = 1)
                  THEN quotient + 1
                  ELSE quotient
         IN  IF m = Pow2(MantissaBits)
             THEN [m |-> Pow2(MantissaBits - 1), e |-> s.e + 1]
             ELSE [m |-> m, e |-> s.e]

\* a / b for two integers
Divide(a, b) == Round(a, b)

\* f * k for a double f and an integer k
Times(f, k) ==
    IF f.e >= 0 THEN Round(f.m * k * Pow2(f.e), 1) ELSE Round(f.m * k, Pow2(0 - f.e))

\* f - g for two doubles, f not below g
Minus(f, g) ==
    LET low == Min(f.e, g.e)
        n == f.m * Pow2(f.e - low) - g.m * Pow2(g.e - low)
    IN  IF low >= 0 THEN Round(n * Pow2(low), 1) ELSE Round(n, Pow2(0 - low))

\* is the double f the integer n
IsInteger(f, n) == IF f.e >= 0 THEN f.m * Pow2(f.e) = n ELSE f.m = n * Pow2(0 - f.e)

\* is the double f the fraction n / d exactly
IsFraction(f, n, d) == IF f.e >= 0 THEN f.m * Pow2(f.e) * d = n ELSE f.m * d = n * Pow2(0 - f.e)

\* nextPowerOfTwo(n) for n >= 1
nextPowerOfTwo(n) == Pow2(CHOOSE k \in 0..n : Pow2(k) >= n /\ (k = 0 \/ Pow2(k - 1) < n))

\* the sprites to pack: width and height of each
SpriteSizes == [width : 1..MaxSpriteSize, height : 1..MaxSpriteSize]

\* sprites.sort((a, b) => b.height - a.height) for the two sprites of the
\* model: the sort is stable
sortByHeight(sprites) ==
    IF Len(sprites) = 2 /\ sprites[2].height > sprites[1].height
    THEN <<sprites[2], sprites[1]>>
    ELSE sprites

\* ShelfPacker.pack: a sprite goes to the current shelf when it fits, else
\* to a new shelf below; shelf is the current shelf, 0 wide when there is
\* none yet
RECURSIVE pack(_, _, _, _)
pack(sprites, packed, shelf, usedHeight) ==
    IF sprites = <<>>
    THEN [sprites |-> packed, width |-> maxWidth, height |-> usedHeight]
    ELSE LET sprite == Head(sprites)
             w == sprite.width + padding * 2
             h == sprite.height + padding * 2
             fits == /\ shelf.height > 0
                     /\ shelf.remainingWidth >= w
                     /\ shelf.height >= h
             current == IF fits
                        THEN shelf
                        ELSE [y |-> usedHeight, height |-> h, x |-> 0,
                              remainingWidth |-> maxWidth]
             placed == [name |-> Len(packed) + 1, width |-> sprite.width,
                        height |-> sprite.height,
                        x |-> current.x + padding, y |-> current.y + padding]
         IN  pack(Tail(sprites), Append(packed, placed),
                  [current EXCEPT !.x = @ + w, !.remainingWidth = @ - w],
                  IF fits THEN usedHeight ELSE usedHeight + h)

\* packSprites: the sheet is laid out and its size raised to powers of two
packSprites(sprites) ==
    LET packed == pack(sortByHeight(sprites), <<>>,
                       [y |-> 0, height |-> 0, x |-> 0, remainingWidth |-> 0], 0)
    IN  [sprites |-> packed.sprites,
         usedHeight |-> packed.height,
         atlasWidth |-> nextPowerOfTwo(packed.width),
         atlasHeight |-> nextPowerOfTwo(packed.height)]

\* generateAtlasJson that takes the width of the sprite for its right edge
generateAtlasJson_widthAsRightEdge(packedSprites, atlasWidth, atlasHeight) ==
    [i \in 1..Len(packedSprites) |->
        LET sprite == packedSprites[i]
        IN  [name |-> sprite.name, width |-> sprite.width, height |-> sprite.height,
             uv |-> [x |-> sprite.x, y |-> sprite.y,
                     width |-> sprite.width, height |-> sprite.height,
                     u0 |-> Divide(sprite.x, atlasWidth),
                     v0 |-> Divide(sprite.y, atlasHeight),
                     u1 |-> Divide(sprite.width, atlasWidth),
                     v1 |-> Divide(sprite.y + sprite.height, atlasHeight)]]]

\* generateAtlasJson: the record of every sprite, with its rectangle in
\* pixels and in normalized coordinates
generateAtlasJson(packedSprites, atlasWidth, atlasHeight) ==
    [i \in 1..Len(packedSprites) |->
        LET sprite == packedSprites[i]
        IN  [name |-> sprite.name, width |-> sprite.width, height |-> sprite.height,
             uv |-> [x |-> sprite.x, y |-> sprite.y,
                     width |-> sprite.width, height |-> sprite.height,
                     u0 |-> Divide(sprite.x, atlasWidth),
                     v0 |-> Divide(sprite.y, atlasHeight),
                     u1 |-> Divide(sprite.x + sprite.width, atlasWidth),
                     v1 |-> Divide(sprite.y + sprite.height, atlasHeight)]]]

\* applySpriteUVs for an entry with a UV rectangle: setTexCoords(u0, v0,
\* u1 - u0, v1 - v0)
applySpriteUVs(uv) ==
    [u |-> uv.u0, v |-> uv.v0,
     width |-> Minus(uv.u1, uv.u0), height |-> Minus(uv.v1, uv.v0)]

\* the pixel rectangle derived from the UV rectangle: u0 * W, v0 * H,
\* (u1 - u0) * W, (v1 - v0) * H
pixelsOf(uv, atlasWidth, atlasHeight) ==
    [x |-> Times(uv.u0, atlasWidth), y |-> Times(uv.v0, atlasHeight),
     width |-> Times(Minus(uv.u1, uv.u0), atlasWidth),
     height |-> Times(Minus(uv.v1, uv.v0), atlasHeight)]

\* nothing packed yet
NoSheet ==
    [packed |-> FALSE, atlasWidth |-> 0, atlasHeight |-> 0, sprites |-> <<>>,
     applied |-> 0, texCoords |-> <<>>]

\* the packer runs on one or two sprites; it throws when they do not fit
\* the sheet
Pack ==
    /\ ~sheet.packed
    /\ \E sprites \in [1..1 -> SpriteSizes] \cup [1..2 -> SpriteSizes] :
         LET p == packSprites(sprites)
         IN  /\ p.usedHeight <= maxHeight
             /\ sheet' = [NoSheet EXCEPT
                             !.packed = TRUE,
                             !.atlasWidth = p.atlasWidth,
                             !.atlasHeight = p.atlasHeight,
                             !.sprites = generateAtlasJson(p.sprites, p.atlasWidth,
                                                           p.atlasHeight)]
    /\ UNCHANGED <<rvars, fvars, tvars, svars, gvars, anim>>

\* applySpriteUVs is called for a sprite of the sheet
ApplySpriteUVs ==
    /\ sheet.packed
    /\ \E i \in 1..Len(sheet.sprites) :
         sheet' = [sheet EXCEPT !.applied = i,
                                !.texCoords = applySpriteUVs(sheet.sprites[i].uv)]
    /\ UNCHANGED <<rvars, fvars, tvars, svars, gvars, anim>>

InitSheet == sheet = NoSheet

NextSheet == Pack \/ ApplySpriteUVs

(***************************************************************************)
(* The game from its construction on: initialize() with its loads, the     *)
(* start() and stop() calls, the frame callbacks and the keys that change  *)
(* the game state.                                                         *)
(***************************************************************************)
\* the frames are followed until the formation has dropped MaxDrops times
WithinDrops == \A i \in 1..Len(enemies) : DropsOf(enemies[i]) < MaxDrops

\* new Game(canvas): the constructor calls initialize(), which returns
\* false without a GL context and else asks for the shader files
NewGame ==
    /\ game.stage = "none"
    /\ \E glAvailable \in BOOLEAN :
         game' = IF glAvailable
                 THEN [NoGame EXCEPT !.stage = "shaders", !.last = "new"]
                 ELSE [NoGame EXCEPT !.stage = "done", !.initialized = "false",
                                     !.last = "new"]
    /\ shaderProgram' = NewShaderProgram
    /\ frame' = <<>>
    /\ heard' = <<>>
    /\ UNCHANGED <<rvars, fvars, tvars, glShaders, gsm, input, xvars>>

\* initialize() after loadFromFiles has settled: it returns false when the
\* shaders are not there; else the program is used and the texture manager
\* is made and asked for the atlas, one of atlases
shadersSettle(atlases) ==
    \E outcome \in LoadOutcomes :
        LET l == loadFromFiles(SState(shaderProgram, glShaders, FALSE), outcome)
            failed == [World EXCEPT !.game.stage = "done",
                                    !.game.initialized = "false",
                                    !.game.last = "initialize"]
            loading == [World EXCEPT !.game.stage = "atlas",
                                     !.game.last = "initialize"]
        IN  IF ~l.result
            THEN /\ shaderProgram' = l.s
                 /\ glShaders' = l.gl
                 /\ GameBecomes(startWaiting(failed))
                 /\ UNCHANGED <<tvars, xvars>>
            ELSE /\ shaderProgram' = use(l).s
                 /\ glShaders' = use(l).gl
                 /\ GameBecomes(loading)
                 /\ tm' = NewTextureManager
                 /\ \E atlas \in atlases :
                      job' = [pc |-> "fetching", atlas |-> atlas, from |-> Len(images)]
                 /\ UNCHANGED <<images, gpu, xvars>>

\* the shader files settle; the descriptor is one of the game's
ShadersLoad ==
    /\ game.stage = "shaders"
    /\ heard' = <<>>
    /\ shadersSettle(GameAtlases)

\* the shader files settle; the descriptor is any descriptor
ShadersLoadAnyAtlas ==
    /\ game.stage = "shaders"
    /\ heard' = <<>>
    /\ shadersSettle(Atlases)

\* start() is called: it waits for initialize(), or goes on at once when
\* initialize() has settled
Start ==
    /\ game.stage # "none"
    /\ game.starts < MaxStarts
    /\ WithinDrops
    /\ LET called == [World EXCEPT !.game.starts = @ + 1, !.game.last = "start"]
       IN  GameBecomes(IF game.initialized = "pending"
                       THEN [called EXCEPT !.game.waiting = @ + 1]
                       ELSE start(called))
    /\ heard' = <<>>
    /\ UNCHANGED <<tvars, svars, xvars>>

\* stop() is called
Stop ==
    /\ game.stage # "none"
    /\ GameBecomes(stop([World EXCEPT !.game.last = "stop"]))
    /\ heard' = <<>>
    /\ UNCHANGED <<tvars, svars, xvars>>

\* the display refreshes: a pending frame callback is called
FrameCallback ==
    /\ game.pending > 0
    /\ WithinDrops
    /\ \E deltaTime \in DeltaTimes :
         GameBecomes(gameLoop([World EXCEPT !.game.pending = @ - 1,
                                            !.game.last = "frame"], deltaTime))
    /\ heard' = <<>>
    /\ UNCHANGED <<tvars, svars, xvars>>

\* the game's listener resetting the game whenever play begins, after a
\* pause too
resetCalled_onResume(notes) ==
    \E k \in 1..Len(notes) :
        /\ notes[k].listener = 1
        /\ notes[k].newState = PLAYING

\* did the game's listener, the first registered, call reset()
resetCalled(notes) ==
    \E k \in 1..Len(notes) :
        /\ notes[k].listener = 1
        /\ notes[k].oldState = MENU
        /\ notes[k].newState = PLAYING

\* a handler has called the state manager, which is now st.gsm; the game's
\* listener has reset the game if the game went from menu to playing
stateInput(st) ==
    /\ heard' = st.notes
    /\ LET w == [World EXCEPT !.gsm = st.gsm, !.game.last = "key"]
       IN  GameBecomes(IF resetCalled(st.notes) THEN gameReset(w, tm) ELSE w)
    /\ UNCHANGED <<tvars, svars, xvars>>

\* Space in the menu
KeySpace ==
    /\ gsm.exists
    /\ isState(gsm, MENU)
    /\ stateInput(startGame(GState(gsm, <<>>)))

\* P or Escape while playing or paused
KeyP ==
    /\ gsm.exists
    /\ isState(gsm, PLAYING) \/ isState(gsm, PAUSED)
    /\ stateInput(togglePause(GState(gsm, <<>>)))

\* R after the game is over
KeyR ==
    /\ gsm.exists
    /\ isState(gsm, GAME_OVER)
    /\ stateInput(startGame(setState(GState(gsm, <<>>), MENU)))

\* gameOver() is called
GameOver ==
    /\ gsm.exists
    /\ isState(gsm, PLAYING)
    /\ stateInput(gameOver(GState(gsm, <<>>)))

\* onStateChange(callback) is called with one more listener
OnStateChange ==
    /\ gsm.exists
    /\ gsm.listeners < MaxListeners
    /\ \E throws \in BOOLEAN : gsm' = onStateChange(gsm, throws)
    /\ game' = [game EXCEPT !.last = "onStateChange"]
    /\ frame' = <<>>
    /\ heard' = <<>>
    /\ UNCHANGED <<rvars, fvars, tvars, svars, xvars, input>>

\* a keydown event for a code of KeyCodes: the first of a press, or a
\* repeat while the key is held
KeyDown ==
    /\ input.exists
    /\ \E code \in KeyCodes :
         GameBecomes([World EXCEPT !.input = handleKeyDown(@, code),
                                   !.game.last = "keydown"])
    /\ heard' = <<>>
    /\ UNCHANGED <<tvars, svars, xvars>>

\* the keyup event of a key that is down
KeyUp ==
    /\ input.exists
    /\ \E code \in input.keys :
         GameBecomes([World EXCEPT !.input = handleKeyUp(@, code),
                                   !.game.last = "keyup"])
    /\ heard' = <<>>
    /\ UNCHANGED <<tvars, svars, xvars>>

\* new GameStateManager(), on its own
NewStateManager ==
    /\ game.stage = "none"
    /\ ~gsm.exists
    /\ gsm' = NewGameStateManager
    /\ game' = [game EXCEPT !.last = "new GameStateManager"]
    /\ heard' = <<>>
    /\ UNCHANGED <<rvars, fvars, tvars, svars, xvars, frame, input>>

\* a method of the state manager has been called, in whatever state the
\* manager is; the manager is now st.gsm
stateCall(method, st) ==
    /\ game.stage = "none"
    /\ gsm' = st.gsm
    /\ heard' = st.notes
    /\ game' = [game EXCEPT !.last = method]
    /\ UNCHANGED <<rvars, fvars, tvars, svars, xvars, frame, input>>

\* the values setState is called with: the four states and one that is
\* none of them
SetStateArguments == GAME_STATES \cup {"victory"}

CallStartGame ==
    /\ gsm.exists
    /\ stateCall("startGame", startGame(GState(gsm, <<>>)))

CallPause ==
    /\ gsm.exists
    /\ stateCall("pause", pause(GState(gsm, <<>>)))

CallResume ==
    /\ gsm.exists
    /\ stateCall("resume", resumeGame(GState(gsm, <<>>)))

CallTogglePause ==
    /\ gsm.exists
    /\ stateCall("togglePause", togglePause(GState(gsm, <<>>)))

CallGameOver ==
    /\ gsm.exists
    /\ stateCall("gameOver", gameOver(GState(gsm, <<>>)))

CallSetState ==
    /\ gsm.exists
    /\ \E newState \in SetStateArguments :
         stateCall("setState", setState(GState(gsm, <<>>), newState))

NextStates ==
    \/ NewStateManager
    \/ OnStateChange
    \/ CallStartGame
    \/ CallPause
    \/ CallResume
    \/ CallTogglePause
    \/ CallGameOver
    \/ CallSetState

InitShaders ==
    /\ shaderProgram = NewShaderProgram
    /\ glShaders = NewGLShaders

InitGame ==
    /\ game = NoGame
    /\ gsm = NoStateManager
    /\ frame = <<>>
    /\ heard = <<>>
    /\ input = NoInputManager

\* the game at start-up, whatever descriptor the server has
NextStartup ==
    \/ NewGame \/ ShadersLoadAnyAtlas
    \/ FetchFails \/ FetchArrives \/ ImageLoads \/ ImageFails
    \/ Start \/ Stop \/ FrameCallback

\* the game with its own descriptors, and its keys
NextGame ==
    \/ NewGame \/ ShadersLoad
    \/ FetchFails \/ FetchArrives \/ ImageLoads \/ ImageFails
    \/ Start \/ Stop \/ FrameCallback
    \/ KeySpace \/ KeyP \/ KeyR \/ GameOver \/ OnStateChange

\* the game with its own descriptors, the keys that start and pause it and
\* the keys of the input manager
NextInput ==
    \/ NewGame \/ ShadersLoad
    \/ FetchFails \/ FetchArrives \/ ImageLoads \/ ImageFails
    \/ Start \/ FrameCallback
    \/ KeySpace \/ KeyP
    \/ KeyDown \/ KeyUp

\* the state after construction of the objects
Init ==
    /\ InitRenderer /\ InitFormation /\ InitTextures /\ InitShaders /\ InitGame
    /\ InitAnimation /\ InitSheet

SpecRenderer == Init /\ [][NextRenderer]_vars

SpecFormation == Init /\ [][NextFormation]_vars

SpecTextures == Init /\ [][NextTextures]_vars

SpecTextureLife == Init /\ [][NextTextureLife]_vars

SpecStartup == Init /\ [][NextStartup]_vars

SpecStates == Init /\ [][NextStates]_vars

SpecInput == Init /\ [][NextInput]_vars

SpecGame == Init /\ [][NextGame]_vars

SpecShader == Init /\ [][NextShader]_vars

SpecAnimation == Init /\ [][NextAnimation]_vars

SpecSheet == Init /\ [][NextSheet]_vars

(***************************************************************************)
(* One game: the formation is built once, then updated every frame while   *)
(* its enemies are shot one by one.                                        *)
(***************************************************************************)

\* the game starts: the new formation is built
Build ==
    /\ lastCall = "new"
    /\ CreateFormation

\* one frame of the running game
UpdatePlaying ==
    /\ enemies # <<>>
    /\ Update

\* enemies are shot until one is left (MaxLost of them at most)
DestroyToLast ==
    /\ Len(enemies) - Cardinality(getAliveEnemies(enemies)) < MaxLost
    /\ Cardinality(getAliveEnemies(enemies)) > 1
    /\ \E i \in getAliveEnemies(enemies) :
         enemies' = [enemies EXCEPT ![i] = destroy(enemies[i])]
    /\ lastMove' = "none"
    /\ lastCall' = "destroy"
    /\ UNCHANGED <<formation, rvars, tvars, ovars>>

NextPlaying == Build \/ UpdatePlaying \/ Destroy

SpecPlaying == Init /\ [][NextPlaying]_vars

NextEndgame == Build \/ UpdatePlaying \/ DestroyToLast

\* the game loop calls update every frame
SpecEndgame == Init /\ [][NextEndgame]_vars /\ WF_vars(UpdatePlaying)

(***************************************************************************)
(* Properties of the renderer                                              *)
(***************************************************************************)

RECURSIVE Flatten(_)
Flatten(ss) == IF ss = <<>> THEN <<>> ELSE Head(ss) \o Flatten(Tail(ss))

\* the quads of the successive draw calls, in submission order
Submitted == Flatten([k \in 1..Len(drawCalls) |-> drawCalls[k].quads])

\* the numbers of the drawSprite calls of t[k..] whose sprite is visible
RECURSIVE VisibleFrom(_, _)
VisibleFrom(t, k) ==
    IF k > Len(t)
    THEN <<>>
    ELSE IF t[k].op = "drawSprite" /\ t[k].visible
         THEN <<k>> \o VisibleFrom(t, k + 1)
         ELSE VisibleFrom(t, k + 1)

VisibleIds == VisibleFrom(trace, 1)

\* the texture of the sprite a submitted quad was written for
TextureOfQuad(q) == IF q \in 1..Len(trace) THEN trace[q].texture ELSE "stale"

\* t is n >= 1 drawSprite calls of visible sprites
VisibleRun(t, n) ==
    /\ n >= 1
    /\ Len(t) >= n
    /\ \A k \in 1..n : t[k].op = "drawSprite" /\ t[k].visible

\* ... that share one texture
SameTextureRun(t, n) ==
    /\ VisibleRun(t, n)
    /\ \A k \in 1..n : t[k].texture = t[1].texture

\* ... each with another texture than its predecessor
AlternatingRun(t, n) ==
    /\ VisibleRun(t, n)
    /\ \A k \in 2..n : t[k].texture # t[k - 1].texture

CeilDiv(a, b) == (a + b - 1) \div b

\* C1: every draw call holds only quads of sprites of one texture identity,
\* and that identity is the one bound for the call (none bound for the
\* textureless sprites)
C1_OneTexturePerDrawCall ==
    \A d \in 1..Len(drawCalls) :
        \A k \in 1..Len(drawCalls[d].quads) :
            TextureOfQuad(drawCalls[d].quads[k]) = drawCalls[d].texture

\* C2: after render(sprites) the quads of the successive draw calls are
\* exactly the visible sprites of the list, in the order of the list
C2_RenderPreservesOrder ==
    lastOp = "render" => Submitted = VisibleIds

\* a render() of a list longer than the buffer, with a texture change and
\* an invisible sprite
C2_Witness ==
    /\ lastOp = "render"
    /\ Len(drawCalls) >= 2
    /\ Len(VisibleIds) >= 2
    /\ \E k \in 1..Len(trace) : trace[k].op = "drawSprite" /\ ~trace[k].visible

\* C3: N <= maxSprites visible sprites of one texture, then flush() or
\* end(): exactly one draw call, issued by that flush, of 6N vertices, the
\* quads in call order
C3_SingleTextureOneDrawCall ==
    \A n \in 1..maxSprites :
        (/\ Len(trace) = n + 1
         /\ SameTextureRun(trace, n)
         /\ trace[n + 1].op \in {"flush", "end"})
        => /\ Len(drawCalls) = 1
           /\ drawCalls[1].at = n + 1
           /\ drawCalls[1].count = 6 * n
           /\ drawCalls[1].quads = [k \in 1..n |-> k]
           /\ drawCalls[1].texture = trace[1].texture

\* a full buffer of sprites of one texture, flushed
C3_Witness ==
    /\ Len(trace) = maxSprites + 1
    /\ SameTextureRun(trace, maxSprites)
    /\ trace[maxSprites + 1].op \in {"flush", "end"}
    /\ Len(drawCalls) = 1

\* C4: when every sprite has another texture identity than its predecessor,
\* the number of draw calls between begin() and end() is the number of
\* sprites
C4_AlternatingFlushesPerSprite ==
    \A n \in 1..MaxCalls :
        (/\ Len(trace) = n + 1
         /\ AlternatingRun(trace, n)
         /\ trace[n + 1].op = "end")
        => Len(drawCalls) = n

\* C5: vertexCount = 6 x spriteCount, spriteCount <= maxSprites, every
\* write lands inside the buffer, and N sprites of one texture give
\* ceil(N / maxSprites) draw calls
C5_BufferNeverOverflows ==
    /\ renderer.vertexCount = 6 * renderer.spriteCount
    /\ renderer.spriteCount <= maxSprites
    /\ maxIdx < BufferLength
    /\ \A n \in 1..MaxCalls :
         /\ (Len(trace) = n /\ SameTextureRun(trace, n))
            => /\ Len(drawCalls) = CeilDiv(n, maxSprites) - 1
               /\ renderer.spriteCount = n - maxSprites * (CeilDiv(n, maxSprites) - 1)
         /\ (Len(trace) = n + 1 /\ SameTextureRun(trace, n) /\ trace[n + 1].op = "end")
            => Len(drawCalls) = CeilDiv(n, maxSprites)

\* a drawSprite that found the buffer full and flushed it
C5_Witness ==
    /\ SameTextureRun(trace, maxSprites + 1)
    /\ Len(drawCalls) >= 1
    /\ drawCalls[1].at = maxSprites + 1
    /\ drawCalls[1].count = 6 * maxSprites

\* C6: after end() the vertex cursor and the sprite count are 0 and every
\* quad appended since begin() has been submitted
C6_EndFlushesRemainder ==
    lastOp \in {"end", "render"}
    => /\ renderer.vertexCount = 0
       /\ renderer.spriteCount = 0
       /\ Submitted = VisibleIds

\* an end() that had a remainder to flush, after an earlier flush
C6_Witness ==
    /\ lastOp = "end"
    /\ Len(drawCalls) >= 2
    /\ drawCalls[Len(drawCalls)].at = Len(trace)

\* C7: no draw call of zero vertices; render() of no visible sprite issues
\* no draw call; the second of two consecutive flush() calls issues none
C7_FlushOfEmptyBatchIsNoOp ==
    /\ \A d \in 1..Len(drawCalls) : drawCalls[d].count > 0
    /\ (lastOp = "render" /\ VisibleIds = <<>>) => drawCalls = <<>>
    /\ \A k \in 1..(Len(trace) - 1) :
         (trace[k].op \in {"flush", "end"} /\ trace[k + 1].op \in {"flush", "end"})
         => \A d \in 1..Len(drawCalls) : drawCalls[d].at # k + 1

\* two consecutive flush() calls, the first of which drew
C7_Witness ==
    \E k \in 1..(Len(trace) - 1) :
        /\ trace[k].op = "flush"
        /\ trace[k + 1].op = "flush"
        /\ \E d \in 1..Len(drawCalls) : drawCalls[d].at = k

\* C8: drawSprite of an invisible sprite changes nothing of the renderer
\* and issues no draw call
C8_InvisibleSpriteSkipped ==
    [][(lastOp' = "drawSprite" /\ ~trace'[Len(trace')].visible)
       => (renderer' = renderer /\ drawCalls' = drawCalls)]_vars

\* an invisible sprite of another texture was drawn on a full buffer
C8_Witness ==
    /\ lastOp = "drawSprite"
    /\ ~trace[Len(trace)].visible
    /\ renderer.spriteCount = maxSprites
    /\ renderer.currentTexture # NoTexture
    /\ trace[Len(trace)].texture # renderer.currentTexture

(***************************************************************************)
(* Properties of the formation                                             *)
(***************************************************************************)

\* the formation is at the boundary it is heading for
AtBoundary(f, es) ==
    \/ f.direction = 1 /\ getFormationBounds(es).right >= rightBound
    \/ f.direction = -1 /\ getFormationBounds(es).left <= leftBound

\* C9: a formation move made with the bounding box of the living enemies
\* at or beyond the bound it is heading for drops every living enemy by
\* ENEMY_DROP_DISTANCE, reverses the direction and moves no enemy
\* horizontally
C9_BoundaryDropsAndReverses ==
    [][(lastMove' # "none" /\ AtBoundary(formation, enemies))
       => /\ formation'.direction = -formation.direction
          /\ Len(enemies') = Len(enemies)
          /\ \A i \in 1..Len(enemies) :
               /\ enemies'[i].x = enemies[i].x
               /\ enemies'[i].formationX = enemies[i].formationX
               /\ enemies[i].alive
                  => /\ enemies'[i].formationY = enemies[i].formationY + ENEMY_DROP_DISTANCE
                     /\ enemies'[i].y = enemies[i].y + ENEMY_DROP_DISTANCE]_vars

\* the formation, one enemy short, has just dropped with its right edge
\* exactly on rightBound
C9_Witness ==
    /\ lastMove = "drop"
    /\ formation.direction = -1
    /\ getFormationBounds(enemies).right = rightBound
    /\ \E i \in 1..Len(enemies) : ~enemies[i].alive

\* C10: the bounding box of the living enemies never leaves
\* [leftBound, rightBound]
C10_FormationStaysInsideBounds ==
    getAliveEnemies(enemies) # {}
    => /\ getFormationBounds(enemies).left >= leftBound
       /\ getFormationBounds(enemies).right <= rightBound

\* the formation target of enemy i went from es to es2 by (dx, dy)
TargetMoved(es, es2, i, dx, dy) ==
    /\ es2[i].formationX = es[i].formationX + dx
    /\ es2[i].formationY = es[i].formationY + dy

\* C11: a formation move either advances every living enemy by
\* direction x ENEMY_MOVE_SPEED and changes no y, or drops every living
\* enemy by ENEMY_DROP_DISTANCE and changes no x; the direction flips
\* exactly in the drops
C11_DropOrAdvanceNeverBoth ==
    [][lastMove' # "none"
       => LET alive == getAliveEnemies(enemies)
              advanced == \A i \in alive :
                  TargetMoved(enemies, enemies', i,
                              formation.direction * ENEMY_MOVE_SPEED, 0)
              dropped == \A i \in alive :
                  TargetMoved(enemies, enemies', i, 0, ENEMY_DROP_DISTANCE)
          IN  /\ Len(enemies') = Len(enemies)
              /\ alive # {}
              /\ advanced \/ dropped
              /\ ~(advanced /\ dropped)
              /\ dropped <=> formation'.direction # formation.direction
              /\ formation'.direction \in {formation.direction, -formation.direction}
              /\ \A i \in 1..Len(enemies) :
                   ~enemies[i].alive => enemies'[i] = enemies[i]]_vars

\* the formation, one enemy short, has advanced to the left
C11_Witness ==
    /\ lastMove = "advance"
    /\ formation.direction = -1
    /\ \E i \in 1..Len(enemies) : ~enemies[i].alive

DelayFor(aliveCount) ==
    Max(MinMoveDelay, (ENEMY_MOVE_DELAY * aliveCount) \div TotalEnemies)

\* C13: after update(dt) the delay is max(0.1 s, ENEMY_MOVE_DELAY x alive /
\* total), hence never below 0.1 s
C13_DelayAfterUpdate ==
    lastCall = "update"
    => /\ formation.moveDelay = DelayFor(Cardinality(getAliveEnemies(enemies)))
       /\ formation.moveDelay >= MinMoveDelay
       /\ formation.moveDelay > 0

\* an update of a formation without a living enemy
C13_Witness ==
    /\ lastCall = "update"
    /\ getAliveEnemies(enemies) = {}
    /\ formation.moveDelay = MinMoveDelay

\* C14: of two formations that differ only in that the second has fewer
\* living enemies (the formation before and after an enemy is destroyed),
\* update computes for the second a delay no longer than for the first;
\* while enemies are only destroyed the delay never grows from one update
\* to the next
C14_FewerEnemiesNeverSlower ==
    [][/\ lastCall' = "destroy"
          => \A deltaTime \in DeltaTimes :
                update(formation, enemies', deltaTime).formation.moveDelay
                    <= update(formation, enemies, deltaTime).formation.moveDelay
       /\ formation'.moveDelay <= formation.moveDelay]_vars

\* an update has shortened the delay a second time
C14_Witness ==
    /\ lastCall = "update"
    /\ Cardinality(getAliveEnemies(enemies)) = Len(enemies) - 2
    /\ formation.moveDelay < ENEMY_MOVE_DELAY
    /\ formation.moveDelay > MinMoveDelay

\* the model stops updating a formation that has dropped MaxDrops times
Capped ==
    \E i \in 1..Len(enemies) : DropsOf(enemies[i]) >= MaxDrops

\* C15: while an enemy is alive and update keeps being called, the
\* formation moves again, whatever the number of living enemies
C15_FormationNeverFreezes ==
    (getAliveEnemies(enemies) # {} /\ lastMove = "none")
        ~> (lastMove # "none" \/ Capped)

\* the last living enemy has moved
C15_Witness ==
    /\ lastMove # "none"
    /\ Cardinality(getAliveEnemies(enemies)) = 1

\* the enemies getShooters returns
Shooters(es) == {getShooters(es)[k] : k \in 1..Len(getShooters(es))}

\* the living enemies of a column
LivingOfColumn(es, col) == {i \in getAliveEnemies(es) : es[i].col = col}

\* C16: getShooters returns, for each column with a living enemy, the
\* living enemy of greatest row and no other, and nothing for a column
\* without living enemy, whatever has been destroyed
C16_ShootersAreBottomMostLiving ==
    LET shooters == Shooters(enemies)
    IN  /\ Cardinality(shooters) = Len(getShooters(enemies))
        /\ shooters \subseteq getAliveEnemies(enemies)
        /\ \A col \in 0..(ENEMY_COLS - 1) :
             LET living == LivingOfColumn(enemies, col)
                 returned == {i \in shooters : enemies[i].col = col}
             IN  IF living = {}
                 THEN returned = {}
                 ELSE /\ Cardinality(returned) = 1
                      /\ \A i \in returned : \A j \in living :
                           enemies[j].row <= enemies[i].row

\* the front enemy of a column has just been destroyed and the one above it
\* is the column's shooter
C16_Witness ==
    /\ lastCall = "destroy"
    /\ \E i, j \in 1..Len(enemies) :
         /\ enemies[i].col = enemies[j].col
         /\ enemies[i].row < enemies[j].row
         /\ enemies[i].alive
         /\ ~enemies[j].alive
         /\ i \in Shooters(enemies)

\* C17: reset() empties the formation and restores direction +1 and timer
\* 0; until createFormation the formation stays empty, getAliveEnemies and
\* getShooters return nothing, isCleared() is true and update moves
\* nothing; isCleared() is true exactly when no enemy is alive
C17_ResetEmptiesFormation ==
    [][/\ lastCall' = "reset"
          => /\ enemies' = <<>>
             /\ formation'.direction = 1
             /\ formation'.moveTimer = 0
       /\ (enemies = <<>> /\ lastCall' # "createFormation")
          => /\ enemies' = <<>>
             /\ lastMove' = "none"
             /\ formation'.direction = formation.direction
       /\ enemies' = <<>>
          => /\ getAliveEnemies(enemies') = {}
             /\ getShooters(enemies') = <<>>
             /\ isCleared(enemies')
       /\ isCleared(enemies') <=> (\A i \in 1..Len(enemies') : ~enemies'[i].alive)]_vars

\* a formation that had lost two enemies has been reset
C17_Witness ==
    /\ lastCall = "reset"
    /\ formation.moveDelay < ENEMY_MOVE_DELAY
    /\ formation.moveDelay > MinMoveDelay

\* the formation as createFormation leaves it
Fresh(es) == \E data \in SpriteDatas : es = createFormation(data)

IndividualMode ==
    tm.spriteAtlas # <<>> /\ job.atlas.hasMeta /\ job.atlas.mode # "packed"

\* the descriptor has arrived and asks for the packed atlas
PackedMode ==
    tm.spriteAtlas # <<>> /\ job.atlas.hasMeta /\ job.atlas.mode = "packed"

\* the sprite entries of the descriptor
DeclaredSprites == {job.atlas.sprites[i] : i \in 1..Len(job.atlas.sprites)}

\* the files the descriptor declares: one per sprite, one per frame
DeclaredFiles ==
    {spriteData.file : spriteData \in DeclaredSprites}
        \cup UNION {{spriteData.frames[k] : k \in 1..Len(spriteData.frames)} :
                       spriteData \in DeclaredSprites}

\* the files whose load has failed
FailedFiles == {images[k].path : k \in {k \in 1..Len(images) : images[k].status = "failed"}}

\* the files whose load is settled
SettledFiles == {images[k].path : k \in {k \in 1..Len(images) : images[k].status # "pending"}}

\* has the file arrived
Arrived(file) == file \in SettledFiles \ FailedFiles

\* C19: in individual mode every declared file is being loaded before any
\* load is waited for; whichever files fail and in whatever order the loads
\* end, the call is never rejected, it resolves when all have ended, and
\* getTexture returns a handle for the names whose file arrived and null
\* for the others
C19_FailedLoadsAreIsolated ==
    IndividualMode
    => /\ job.pc \in {"awaitAll", "resolved"}
       /\ {images[k].path : k \in 1..Len(images)} = DeclaredFiles
       /\ Len(images) = Cardinality(DeclaredFiles)
       /\ job.pc = "resolved" <=> SettledFiles = DeclaredFiles
       /\ \A spriteData \in DeclaredSprites :
            /\ getTexture(tm, spriteData.name) # NullHandle <=> Arrived(spriteData.file)
            /\ \A k \in 1..Len(spriteData.frames) :
                 getTexture(tm, [spriteData.frames[k] EXCEPT !.ext = ""]) # NullHandle
                     <=> Arrived(spriteData.frames[k])

\* the call has resolved although the first file and one more failed, and
\* a file requested after the first has arrived
C19_Witness ==
    /\ IndividualMode
    /\ job.pc = "resolved"
    /\ Len(images) >= 3
    /\ images[1].status = "failed"
    /\ Cardinality(FailedFiles) >= 2
    /\ \E k \in 2..Len(images) : images[k].status = "loaded"

\* C20: in packed mode one image is fetched and one texture created, and
\* when the call resolves every sprite entry of the descriptor is in the
\* texture map with the texture of the atlas, the entries differing by
\* their UV rectangle only
C20_PackedSpritesShareAtlasTexture ==
    PackedMode
    => /\ Len(images) = 1
       /\ gpu.created <= 1
       /\ job.pc = "resolved"
          => /\ gpu.created = 1
             /\ getTexture(tm, AtlasName) # NullHandle
             /\ \A spriteData \in DeclaredSprites :
                  /\ getTexture(tm, spriteData.name) = getTexture(tm, AtlasName)
                  /\ tm.textures[spriteData.name].uv = spriteData.uv
                  /\ \A other \in DeclaredSprites :
                       [tm.textures[spriteData.name] EXCEPT !.uv = other.uv]
                           = tm.textures[other.name]

\* the descriptor lacks the meta block or names no known mode
Malformed(atlas) == ~atlas.hasMeta \/ atlas.mode \notin {"individual", "packed"}

\* C21: once a malformed descriptor has arrived, loadSpriteAtlas is
\* rejected, no image is requested and nothing is registered
C21_MalformedDescriptorRejected ==
    (tm.spriteAtlas # <<>> /\ Malformed(job.atlas))
    => /\ job.pc = "rejected"
       /\ images = <<>>
       /\ tm.textures = EmptyMap

\* C22: whatever was called before, clear() leaves the texture map empty
\* and the counters at 0, every texture the manager has created has then
\* been deleted, and a second clear() changes nothing
C22_ClearFreesEveryTexture ==
    [][Clear
       => /\ tm'.textures = EmptyMap
          /\ tm'.loadedCount = 0
          /\ tm'.totalCount = 0
          /\ \A h \in 1..gpu'.created : gpu'.deleted[h] >= 1
          /\ clear(CurTextures)' = CurTextures']_vars

\* C23: an image that was on its way when clear() was called and arrives
\* afterwards creates no texture, adds no entry to the texture map and
\* leaves loadedCount as it is
C23_LoadAfterClearIsIgnored ==
    [][\A k \in 1..Len(images) :
          (/\ images[k].stale
           /\ images[k].status = "pending"
           /\ Len(images') = Len(images)
           /\ images'[k].status = "loaded")
          => /\ gpu'.created = gpu.created
             /\ tm'.textures = tm.textures
             /\ tm'.loadedCount = tm.loadedCount]_vars

(***************************************************************************)
(* Properties of the game.                                                 *)
(***************************************************************************)
\* the frame loop has been started: the game runs, a frame callback is
\* pending, or the last step executed gameLoop
LoopStarted == game.isRunning \/ game.pending > 0 \/ frame # <<>>

\* C24: the frame loop is not started before initialize() has settled:
\* whenever the game runs, a frame callback is pending or a frame was
\* executed, the shader program is linked and in use, the atlas load has
\* resolved and initialize() has returned true; without a GL context, when
\* the shaders cannot be fetched, compiled or linked, and when the atlas
\* load is rejected, initialize() has failed and the loop is never started
C24_NoFrameBeforeInitializeSettles ==
    /\ LoopStarted
       => /\ game.initialized = "true"
          /\ shaderProgram.program # NullProgram
          /\ glShaders.current = shaderProgram.program
          /\ job.pc = "resolved"
    /\ (game.stage = "done" /\ shaderProgram.program = NullProgram)
       => game.initialized = "false"
    /\ (game.stage # "none" /\ job.pc = "rejected")
       => game.initialized = "rejected"
    /\ game.initialized \in {"false", "rejected"} => ~LoopStarted

\* start() was called twice while initialize() waited for a descriptor,
\* which arrived without its meta block
C24_Witness ==
    /\ game.initialized = "rejected"
    /\ game.starts >= 2
    /\ tm.spriteAtlas # <<>>
    /\ ~job.atlas.hasMeta
    /\ ~LoopStarted

\* the state manager is there and the game is being played
Playing == gsm.exists /\ isPlaying(gsm)

\* C25: a step that executes gameLoop while the game is not being played
\* (menu, paused, game over, or no state manager yet) calls update and
\* render, but neither EnemyFormation.update nor the renderer: the
\* formation with its timer, direction and delay, every enemy and the
\* renderer are as before; and a running game asks for the next frame
C25_NoSimulationUnlessPlaying ==
    [][(frame' # <<>> /\ ~Playing)
       => /\ formation' = formation
          /\ enemies' = enemies
          /\ UNCHANGED rvars
          /\ \A k \in 1..Len(frame') : frame'[k] \in {<<>>, <<"update", "render">>}
          /\ (game.isRunning /\ game'.last = "frame")
             => /\ frame' = << <<"update", "render">> >>
                /\ game'.pending = game.pending]_vars

\* a frame was executed while the game was paused with the formation on
\* its way
C25_Witness ==
    /\ gsm.exists
    /\ gsm.currentState = PAUSED
    /\ game.last = "frame"
    /\ frame = << <<"update", "render">> >>
    /\ enemies # <<>>
    /\ lastMove = "advance"

\* what listener k was called with by the last step, in order
HeardBy(notes, k) == SelectSeq(notes, LAMBDA n : n.listener = k)

\* C26: a handler that changes the game state has every listener called
\* for every change, with the state before and the state after it; at
\* each call the manager already holds the new state as currentState and
\* the old one as previousState; and a listener hears the changes in the
\* order in which they were made, from the state the handler found to the
\* state it leaves
C26_ListenersNotifiedAfterCommit ==
    [][(game'.last = "key" /\ gsm'.currentState # gsm.currentState)
       => \A k \in 1..gsm.listeners :
            LET mine == HeardBy(heard', k)
            IN  /\ mine # <<>>
                /\ mine[1].oldState = gsm.currentState
                /\ mine[Len(mine)].newState = gsm'.currentState
                /\ \A i \in 1..Len(mine) :
                     /\ mine[i].oldState # mine[i].newState
                     /\ mine[i].getState = mine[i].newState
                     /\ mine[i].previousState = mine[i].oldState
                     /\ i < Len(mine) => mine[i].newState = mine[i + 1].oldState]_vars

\* R after game over: two listeners have each heard game over -> menu and
\* then menu -> playing
C26_Witness ==
    /\ gsm.exists
    /\ gsm.listeners = 2
    /\ gsm.currentState = PLAYING
    /\ Len(heard) = 4
    /\ heard[1].oldState = GAME_OVER
    /\ heard[2].listener = 2
    /\ heard[3].newState = PLAYING

\* how often call occurs in the calls of one gameLoop execution
Count(calls, call) == Len(SelectSeq(calls, LAMBDA c : c = call))

\* the first place of call in calls
First(calls, call) == CHOOSE i \in 1..Len(calls) : calls[i] = call /\ \A j \in 1..(i - 1) : calls[j] # call

\* C27: whatever start() and stop() calls are made, at most one frame
\* callback is pending; a gameLoop execution that does anything calls
\* update once and render once, update first; and a frame callback that
\* finds the game stopped calls neither
C27_OneFrameCallbackPending ==
    [][/\ game'.pending <= 1
       /\ \A k \in 1..Len(frame') :
            frame'[k] # <<>>
            => /\ Count(frame'[k], "update") = 1
               /\ Count(frame'[k], "render") = 1
               /\ First(frame'[k], "update") < First(frame'[k], "render")
       /\ (~game.isRunning /\ game'.last = "frame") => frame' = << <<>> >>]_vars

(***************************************************************************)
(* Properties of the animation component, the packer and the shader        *)
(* program.                                                                *)
(***************************************************************************)
\* C28: whatever the animation block and whatever calls were made, the
\* current frame of a component is at least 0 and below frameCount, and
\* frameNames has a name at that index
C28_FrameIndexInRange ==
    anim.made
    => /\ 0 <= anim.currentFrame
       /\ anim.currentFrame < anim.frameCount
       /\ anim.currentFrame + 1 \in DOMAIN anim.frameNames

\* C29: every record the packer writes has u0 = x / W, v0 = y / H,
\* u1 = (x + width) / W and v1 = (y + height) / H for the rectangle
\* (x, y, width, height) of the record, whose width and height are those
\* of the sprite; the rectangle derived from the UVs in doubles,
\* (u0 * W, v0 * H, (u1 - u0) * W, (v1 - v0) * H), is that rectangle; and
\* the texture coordinates applySpriteUVs sets are x / W, y / H, width / W
\* and height / H
C29_UVRoundTrip ==
    sheet.packed
    => \A i \in 1..Len(sheet.sprites) :
         LET uv == sheet.sprites[i].uv
             W == sheet.atlasWidth
             H == sheet.atlasHeight
             derived == pixelsOf(uv, W, H)
         IN  /\ uv.width = sheet.sprites[i].width
             /\ uv.height = sheet.sprites[i].height
             /\ IsFraction(uv.u0, uv.x, W)
             /\ IsFraction(uv.v0, uv.y, H)
             /\ IsFraction(uv.u1, uv.x + uv.width, W)
             /\ IsFraction(uv.v1, uv.y + uv.height, H)
             /\ IsInteger(derived.x, uv.x)
             /\ IsInteger(derived.y, uv.y)
             /\ IsInteger(derived.width, uv.width)
             /\ IsInteger(derived.height, uv.height)
             /\ sheet.applied = i
                => /\ sheet.texCoords.u = uv.u0
                   /\ sheet.texCoords.v = uv.v0
                   /\ IsFraction(sheet.texCoords.width, uv.width, W)
                   /\ IsFraction(sheet.texCoords.height, uv.height, H)

\* two sprites on two shelves of a sheet higher than one shelf, the UVs of
\* the second applied to a sprite
C29_Witness ==
    /\ sheet.packed
    /\ Len(sheet.sprites) = 2
    /\ sheet.sprites[2].uv.y > sheet.sprites[1].uv.y
    /\ sheet.sprites[2].uv.x = padding
    /\ sheet.sprites[2].uv.width = 5
    /\ sheet.applied = 2

\* the step is a call of create
CreateCalled == glShaders'.last = "create" /\ glShaders'.calls = glShaders.calls + 1

\* C30: whatever was called before, when create returns false the
\* program of the object is null, use() binds nothing, no location was
\* asked for by the call and none was ever asked for of a program that
\* did not link; when it returns true the locations of the new program
\* were asked for once
C30_FailedCreateExposesNoProgram ==
    [][/\ (CreateCalled /\ ~glShaders'.returned)
          => /\ shaderProgram'.program = NullProgram
             /\ use(SState(shaderProgram', glShaders', FALSE)).gl.current
                    = glShaders'.current
             /\ glShaders'.queried = glShaders.queried
             /\ \A k \in 1..Len(glShaders'.queried) :
                    glShaders'.queried[k] \notin glShaders'.deletedPrograms
       /\ (CreateCalled /\ glShaders'.returned)
          => /\ shaderProgram'.program \notin glShaders'.deletedPrograms \cup {NullProgram}
             /\ glShaders'.queried = Append(glShaders.queried, shaderProgram'.program)]_vars

(***************************************************************************)
(* Properties of the formation as a whole                                  *)
(***************************************************************************)

\* enemies i and j of es are as far apart, drawn and as targets, as their
\* grid cells are
GridOffset(es, i, j) ==
    /\ es[i].x - es[j].x = (es[i].col - es[j].col) * ENEMY_SPACING_X
    /\ es[i].y - es[j].y = (es[i].row - es[j].row) * ENEMY_SPACING_Y
    /\ es[i].formationX - es[j].formationX = es[i].x - es[j].x
    /\ es[i].formationY - es[j].formationY = es[i].y - es[j].y

\* C31: across update(dt) and destroy() calls every formation move applies
\* one displacement to all living enemies, so the offset between any two
\* enemies that are both alive stays what createFormation made it, and no
\* enemy's y ever decreases
C31_FormationMovesInLockstep ==
    [][/\ \A i, j \in getAliveEnemies(enemies') : GridOffset(enemies', i, j)
       /\ lastCall' \in {"update", "destroy"}
          => /\ Len(enemies') = Len(enemies)
             /\ \A i \in 1..Len(enemies) :
                  /\ enemies'[i].y >= enemies[i].y
                  /\ enemies'[i].formationY >= enemies[i].formationY
             /\ \A i, j \in getAliveEnemies(enemies') :
                  /\ enemies'[i].x - enemies[i].x = enemies'[j].x - enemies[j].x
                  /\ enemies'[i].y - enemies[i].y = enemies'[j].y - enemies[j].y
                  /\ enemies'[i].x - enemies'[j].x = enemies[i].x - enemies[j].x
                  /\ enemies'[i].y - enemies'[j].y = enemies[i].y - enemies[j].y]_vars

\* the formation, two enemies of different rows and columns short, has
\* dropped, and living enemies of different rows are left
C31_Witness ==
    /\ lastMove = "drop"
    /\ \E i, j \in 1..Len(enemies) :
         /\ ~enemies[i].alive /\ ~enemies[j].alive
         /\ enemies[i].row # enemies[j].row
         /\ enemies[i].col # enemies[j].col
    /\ \E i, j \in getAliveEnemies(enemies) : enemies[i].row # enemies[j].row

\* the bounding box of the formation targets of the living enemies
TargetBounds(es) ==
    LET alive == getAliveEnemies(es)
    IN  [left |-> SetMin({es[i].formationX : i \in alive}),
         right |-> SetMax({es[i].formationX + es[i].width : i \in alive}),
         top |-> SetMin({es[i].formationY : i \in alive}),
         bottom |-> SetMax({es[i].formationY + es[i].height : i \in alive})]

RectangleOf(t, name) ==
    LET spriteData == CHOOSE d \in getSpriteData(t, name) : TRUE
    IN  IF t.spriteAtlas[1].mode = "packed" THEN spriteData.uv ELSE UnitRectangle

\* the sprites TextureManager.createSprite makes carry the rectangle of
\* their entry
CreatedSpritesCarryRectangle ==
    \A name \in DOMAIN tm.textures :
        getSpriteData(tm, name) # {}
        => /\ createSprite(tm, name).made
           /\ createSprite(tm, name).texture = getTexture(tm, name)
           /\ createSprite(tm, name).texCoords = RectangleOf(tm, name)

\* the enemies that found their sprite
BoundEnemies == {i \in 1..Len(enemies) : enemies[i].width = AtlasSpriteData.width}

\* C33: once the atlas is loaded, a sprite built by createSprite and an
\* enemy built by createFormation that is bound to the texture of its
\* sprite carry the texture-coordinate rectangle of their sprite entry:
\* its UV rectangle in packed mode, the full unit rectangle in individual
\* mode
C33_SpritesCarryTheirUVRectangle ==
    (game.stage = "done" /\ job.pc = "resolved")
    => /\ CreatedSpritesCarryRectangle
       /\ \A i \in BoundEnemies : enemies[i].texCoords = RectangleOf(tm, EnemySprite)

(***************************************************************************)
(* Properties of the game states                                           *)
(***************************************************************************)

\* the step has reset the formation and built it anew
Rebuilt ==
    /\ formation'.direction = 1
    /\ formation'.moveTimer = 0
    /\ enemies' = createFormation(enemySpriteData(tm))
    /\ lastCall' = "createFormation"

\* C34: the formation is reset and rebuilt when the state goes from MENU to
\* PLAYING (from the menu, or from GAME_OVER by way of MENU) and at no
\* other call of the state manager: resuming from PAUSED leaves enemies,
\* direction and timer as they are; whenever the state is PLAYING or
\* PAUSED the full formation has been built
C34_RebuiltExactlyOnMenuToPlaying ==
    [][(gsm.exists /\ gsm'.exists)
       => /\ (gsm.currentState = MENU /\ gsm'.currentState = PLAYING) => Rebuilt
          /\ (gsm.currentState = GAME_OVER /\ gsm'.currentState = PLAYING)
             => gsm'.previousState = MENU /\ Rebuilt
          /\ (/\ game'.last \in {"key", "onStateChange"}
              /\ ~(gsm.currentState \in {MENU, GAME_OVER} /\ gsm'.currentState = PLAYING))
             => UNCHANGED <<formation, enemies>>
          /\ (gsm.currentState = PAUSED /\ gsm'.currentState = PLAYING)
             => UNCHANGED <<formation, enemies>>
          /\ gsm'.currentState \in {PLAYING, PAUSED} => Len(enemies') = TotalEnemies]_vars

\* play was resumed after a pause with the formation's timer running
C34_Witness ==
    /\ gsm.exists
    /\ gsm.currentState = PLAYING
    /\ gsm.previousState = PAUSED
    /\ game.last = "key"
    /\ formation.moveTimer > 0
    /\ Len(enemies) = TotalEnemies

\* the step took the manager from state from to state to and told every
\* listener once
Went(from, to) ==
    /\ gsm.currentState = from
    /\ gsm'.currentState = to
    /\ gsm'.previousState = from
    /\ Len(heard') = gsm.listeners
    /\ \A k \in 1..Len(heard') :
         heard'[k].oldState = from /\ heard'[k].newState = to

\* the step changed nothing in the manager and told no listener
NoOp == gsm' = gsm /\ heard' = <<>>

\* the call is a transition from its source state and nothing elsewhere
Guarded(method, from, to) ==
    game'.last = method
    => IF gsm.currentState = from THEN Went(from, to) ELSE NoOp

\* C35: startGame() changes the state only from MENU (to PLAYING), pause()
\* only from PLAYING (to PAUSED), resume() only from PAUSED (to PLAYING),
\* gameOver() only from PLAYING (to GAME_OVER); called in any other state
\* each changes nothing and notifies nobody; togglePause() pauses when
\* playing, resumes when paused, so that two calls give the original
\* state, and does nothing in MENU or GAME_OVER
C35_GuardedTransitions ==
    [][/\ Guarded("startGame", MENU, PLAYING)
       /\ Guarded("pause", PLAYING, PAUSED)
       /\ Guarded("resume", PAUSED, PLAYING)
       /\ Guarded("gameOver", PLAYING, GAME_OVER)
       /\ game'.last = "togglePause"
          => /\ IF gsm.currentState = PLAYING THEN Went(PLAYING, PAUSED)
                ELSE IF gsm.currentState = PAUSED THEN Went(PAUSED, PLAYING)
                ELSE NoOp
             /\ togglePause(GState(gsm', <<>>)).gsm.currentState = gsm.currentState]_vars

\* gameOver() was called while the game was paused, with a listener
\* registered
C35_Witness ==
    /\ gsm.exists
    /\ game.last = "gameOver"
    /\ gsm.currentState = PAUSED
    /\ gsm.listeners > 0
    /\ heard = <<>>

\* C36: the current state is one of the four states; setState with a
\* value that is no state, or with the current state, leaves currentState
\* and previousState as they are and calls no listener; any other setState
\* makes the value the current state and calls each registered listener
\* exactly once, in order of registration, whether or not a listener throws
C36_SetStateRejectsOrNotifiesAll ==
    gsm.exists
    => /\ gsm.currentState \in GAME_STATES
       /\ \A newState \in SetStateArguments :
            LET after == setState(GState(gsm, <<>>), newState)
            IN  IF newState \notin GAME_STATES \/ newState = gsm.currentState
                THEN after.gsm = gsm /\ after.notes = <<>>
                ELSE /\ after.gsm.currentState = newState
                     /\ after.gsm.previousState = gsm.currentState
                     /\ Len(after.notes) = gsm.listeners
                     /\ \A k \in 1..gsm.listeners :
                          /\ after.notes[k].listener = k
                          /\ after.notes[k].oldState = gsm.currentState
                          /\ after.notes[k].newState = newState

\* setState has changed the state of a manager whose first listener throws
\* and whose second does not, and both were called
C36_Witness ==
    /\ gsm.exists
    /\ game.last = "setState"
    /\ gsm.throwing = {1}
    /\ Len(heard) = 2
    /\ heard[1].threw /\ ~heard[2].threw
    /\ heard[2].listener = 2

(***************************************************************************)
(* Properties of the input manager                                         *)
(***************************************************************************)

\* C37: the action buffer is empty at the end of every frame, so a key
\* press is reported by isActionTriggered in at most one frame, the first
\* that runs after the keydown event, whatever the game state is when the
\* key is pressed; and a repeated keydown of a key that is held adds
\* nothing to the buffer
C37_KeyPressTriggersOneFrame ==
    [][input'.exists
       => /\ \A code \in KeyCodes : input'.triggered[code] <= 1
          /\ (game'.last = "frame" /\ game.isRunning) => input'.actionBuffer = {}
          /\ \A code \in input.keys :
               game'.last = "keydown" => input'.actionBuffer = input.actionBuffer]_vars

(***************************************************************************)
(* Properties of the texture handles and of the loading progress           *)
(***************************************************************************)

\* C38: after any sequence of loadSpriteAtlas, loadTexture,
\* createColorTexture, deleteTexture and clear calls no entry of the
\* texture map holds a texture that has been deleted, and no texture has
\* been passed to gl.deleteTexture more than once
C38_NoDanglingOrDoublyDeletedHandle ==
    /\ \A name \in DOMAIN tm.textures : gpu.deleted[tm.textures[name].texture] = 0
    /\ \A h \in 1..gpu.created : gpu.deleted[h] <= 1

\* C39: during and after loadSpriteAtlas, in individual and in packed mode,
\* 0 <= loadedCount <= totalCount, so the percentage getLoadingProgress
\* returns is within [0, 100]; and when every declared file has loaded
\* loadedCount = totalCount
C39_LoadingProgressConsistent ==
    job.pc # "idle"
    => /\ 0 <= getLoadingProgress(tm).loaded
       /\ getLoadingProgress(tm).loaded <= getLoadingProgress(tm).total
       /\ getLoadingProgress(tm).percentage \in 0..100
       /\ (/\ IndividualMode \/ PackedMode
           /\ job.pc = "resolved"
           /\ FailedFiles = {})
          => tm.loadedCount = tm.totalCount

\* the update step decided its move with delay: it moved with the timer at
\* or beyond delay, or let the timer run with the timer below delay
DecidedWith(delay) ==
    \E deltaTime \in DeltaTimes :
        IF formation'.moveTimer = 0
        THEN formation.moveTimer + deltaTime >= delay
        ELSE /\ formation'.moveTimer = formation.moveTimer + deltaTime
             /\ formation.moveTimer + deltaTime < delay

\* C40: the delay a formation move is decided with is that of the current
\* formation: after reset() and createFormation() it is ENEMY_MOVE_DELAY,
\* however few enemies were alive before, and in every update(dt) the timer
\* is compared with max(minimum, ENEMY_MOVE_DELAY x alive / total) for the
\* enemies alive at that update
C40_DelayReflectsCurrentFormation ==
    [][/\ (lastCall = "reset" /\ lastCall' = "createFormation")
          => formation'.moveDelay = ENEMY_MOVE_DELAY
       /\ (lastCall' = "update" /\ enemies # <<>>)
          => DecidedWith(DelayFor(Cardinality(getAliveEnemies(enemies))))]_vars

=============================================================================
